---- MODULE Spec2Model ----
(***************************************************************************)
(* Bitcoin SPV bridge service: the local header store with its MMR, the    *)
(* storage reconciliation against the Bitcoin source (sync_storage), the   *)
(* on-chain ring of SPV clients and the getTxProof RPC.                    *)
(***************************************************************************)
EXTENDS Integers, Sequences, FiniteSets, TLC

(***************************************************************************)
(* Bounds of the model.                                                    *)
(***************************************************************************)
\* Greatest Bitcoin height the source chain reaches.
MaxHeight == 4
\* Number of side branches of the Bitcoin block tree; branch v forks from
\* the main branch right after height v - 1.
NumForks == 3
\* Longest header batch handed to append_headers by a direct caller.
MaxBatch == 2
\* Height the storage is initialised at (bitcoin_start_height).
BaseHeight == 1

Heights == 0..MaxHeight
Variants == 0..NumForks

\* Option<T> is a sequence of length 0 (None) or 1 (Some).
None == <<>>
Some(x) == <<x>>
IsSome(o) == Len(o) = 1
Unwrap(o) == o[1]

(***************************************************************************)
(* The Bitcoin block tree.  A block is named by (height, branch); blocks   *)
(* of branch v at heights <= v - 1 are the blocks of the main branch.      *)
(***************************************************************************)
CanonVariant(h, v) == IF v = 0 \/ h <= v - 1 THEN 0 ELSE v

\* Header::block_hash: an injective digest of the header's content.
BlockHashOf(h, v) == h * (NumForks + 1) + CanonVariant(h, v) + 1

HeaderOf(h, v) ==
    [ time           |-> h,
      nonce          |-> CanonVariant(h, v),
      prev_blockhash |-> IF h = 0 THEN 0 ELSE BlockHashOf(h - 1, CanonVariant(h, v)) ]

block_hash(header) == header.time * (NumForks + 1) + header.nonce + 1

AllHeaders == { HeaderOf(h, v) : h \in Heights, v \in Variants }

(***************************************************************************)
(* Bit arithmetic used by the MMR position map.                            *)
(***************************************************************************)
RECURSIVE count_ones(_)
count_ones(n) == IF n = 0 THEN 0 ELSE (n % 2) + count_ones(n \div 2)

RECURSIVE trailing_zeros(_)
trailing_zeros(n) == IF n % 2 = 1 THEN 0 ELSE 1 + trailing_zeros(n \div 2)

RECURSIVE bit_length(_)
bit_length(n) == IF n = 0 THEN 0 ELSE 1 + bit_length(n \div 2)

RECURSIVE Pow2(_)
Pow2(k) == IF k = 0 THEN 1 ELSE 2 * Pow2(k - 1)

\* leaf index (0-based) -> size of the MMR whose last leaf has that index
leaf_index_to_mmr_size(index) ==
    LET leaves_count == index + 1
    IN  2 * leaves_count - count_ones(leaves_count)

\* leaf index (0-based) -> position of that leaf
leaf_index_to_pos(index) ==
    leaf_index_to_mmr_size(index) - trailing_zeros(index + 1) - 1

all_ones(n) == n # 0 /\ Pow2(bit_length(n)) - 1 = n

jump_left(pos) == pos - (Pow2(bit_length(pos) - 1) - 1)

RECURSIVE HeightOfOneBased(_)
HeightOfOneBased(p) ==
    IF all_ones(p) THEN bit_length(p) - 1 ELSE HeightOfOneBased(jump_left(p))

pos_height_in_tree(pos) == HeightOfOneBased(pos + 1)

parent_offset(height) == Pow2(height + 1)
sibling_offset(height) == Pow2(height + 1) - 1

\* Peak positions of an MMR of the given size, left to right.
RECURSIVE PeaksFrom(_, _, _)
PeaksFrom(pos, peak_size, peaks_sum) ==
    IF peak_size = 0 THEN <<>>
    ELSE IF pos >= peak_size
         THEN <<peaks_sum + peak_size - 1>>
              \o PeaksFrom(pos - peak_size, peak_size \div 2, peaks_sum + peak_size)
         ELSE PeaksFrom(pos, peak_size \div 2, peaks_sum)

get_peaks(mmr_size) ==
    IF mmr_size = 0 THEN <<>>
    ELSE PeaksFrom(mmr_size, Pow2(bit_length(mmr_size)) - 1, 0)

(***************************************************************************)
(* HeaderDigest: the MMR node.  children_hash is a digest of the two       *)
(* children (of the block hash for a leaf), modelled as their injective    *)
(* serialisation.                                                          *)
(***************************************************************************)
new_leaf(height, hash) ==
    [ min_height |-> height, max_height |-> height, children_hash |-> <<0, hash>> ]

Serialize(d) == <<d.min_height, d.max_height>> \o d.children_hash

merge(lhs, rhs) ==
    [ min_height    |-> lhs.min_height,
      max_height    |-> rhs.max_height,
      children_hash |-> <<1>> \o Serialize(lhs) \o Serialize(rhs) ]

\* called as merge_peaks(right_peak, left_peak)
merge_peaks(lhs, rhs) == merge(rhs, lhs)

(***************************************************************************)
(* The MMR engine (ClientRootMMR): an MMR of a given size over a node      *)
(* store.  `nodes` is the store as seen through the engine's write batch:  *)
(* pushed nodes are buffered there and reach the store only on commit.     *)
(***************************************************************************)
ClientRootMMR_new(mmr_size, store) == [ mmr_size |-> mmr_size, nodes |-> store ]

get_elem(nodes, pos) == IF pos \in DOMAIN nodes THEN Some(nodes[pos]) ELSE None

Put(f, k, v) == [ x \in (DOMAIN f) \cup {k} |-> IF x = k THEN v ELSE f[x] ]

\* MMR::push, the merge loop: while the next position is higher in the tree,
\* write the parent of the two nodes below it.
RECURSIVE PushLoop(_, _, _)
PushLoop(nodes, pos, height) ==
    IF pos_height_in_tree(pos + 1) > height
    THEN LET ppos      == pos + 1
             left_pos  == ppos - parent_offset(height)
             right_pos == left_pos + sibling_offset(height)
         IN  IF left_pos \notin DOMAIN nodes \/ right_pos \notin DOMAIN nodes
             THEN [ ok |-> FALSE, nodes |-> nodes, pos |-> pos ]
             ELSE PushLoop(Put(nodes, ppos, merge(nodes[left_pos], nodes[right_pos])),
                           ppos, height + 1)
    ELSE [ ok |-> TRUE, nodes |-> nodes, pos |-> pos ]

\* MMR::push after the merge loop r: the new size, or the error
push_merged(mmr, r) ==
    IF r.ok
    THEN [ ok |-> TRUE, mmr |-> [ mmr_size |-> r.pos + 1, nodes |-> r.nodes ] ]
    ELSE [ ok |-> FALSE, mmr |-> mmr ]

push(mmr, elem) ==
    push_merged(mmr, PushLoop(Put(mmr.nodes, mmr.mmr_size, elem), mmr.mmr_size, 0))

\* bag the peaks from right to left
RECURSIVE bag_rhs_peaks(_)
bag_rhs_peaks(peaks) ==
    IF Len(peaks) <= 1 THEN peaks
    ELSE LET n          == Len(peaks)
             right_peak == peaks[n]
             left_peak  == peaks[n - 1]
         IN  bag_rhs_peaks(Append(SubSeq(peaks, 1, n - 2), merge_peaks(right_peak, left_peak)))

get_root(mmr) ==
    LET peaks == get_peaks(mmr.mmr_size)
    IN  IF mmr.mmr_size = 0 THEN [ ok |-> FALSE, root |-> None ]
        ELSE IF \E i \in 1..Len(peaks) : peaks[i] \notin DOMAIN mmr.nodes
             THEN [ ok |-> FALSE, root |-> None ]
             ELSE [ ok |-> TRUE,
                    root |-> Some(bag_rhs_peaks([ i \in 1..Len(peaks) |-> mmr.nodes[peaks[i]] ])[1]) ]

\* the longest prefix of a sorted position list lying at or below peak_pos
RECURSIVE TakeWhileLE(_, _)
TakeWhileLE(pos_list, peak_pos) ==
    IF pos_list = <<>> \/ pos_list[1] > peak_pos THEN <<>>
    ELSE <<pos_list[1]>> \o TakeWhileLE(Tail(pos_list), peak_pos)

\* MMR::gen_proof_for_peak, the queue loop; queue entries are <<pos, height>>
RECURSIVE GenPeakLoop(_, _, _, _)
GenPeakLoop(nodes, queue, proof, peak_pos) ==
    IF queue = <<>> THEN [ ok |-> TRUE, proof |-> proof ]
    ELSE LET pos    == queue[1][1]
             height == queue[1][2]
             rest   == Tail(queue)
         IN  IF pos = peak_pos
             THEN [ ok |-> (rest = <<>>), proof |-> proof ]
             ELSE LET next_height == pos_height_in_tree(pos + 1)
                      sib_pos     == IF next_height > height
                                     THEN pos - sibling_offset(height)
                                     ELSE pos + sibling_offset(height)
                      parent_pos  == IF next_height > height
                                     THEN pos + 1
                                     ELSE pos + parent_offset(height)
                      drop        == rest # <<>> /\ rest[1][1] = sib_pos
                      rest2       == IF drop THEN Tail(rest) ELSE rest
                      queue2      == IF parent_pos < peak_pos
                                     THEN Append(rest2, <<parent_pos, height + 1>>)
                                     ELSE rest2
                  IN  IF drop THEN GenPeakLoop(nodes, queue2, proof, peak_pos)
                      ELSE IF sib_pos \notin DOMAIN nodes
                           THEN [ ok |-> FALSE, proof |-> proof ]
                           ELSE GenPeakLoop(nodes, queue2, Append(proof, nodes[sib_pos]), peak_pos)

gen_proof_for_peak(nodes, proof, pos_list, peak_pos) ==
    IF pos_list = <<peak_pos>> THEN [ ok |-> TRUE, proof |-> proof ]
    ELSE IF pos_list = <<>>
         THEN IF peak_pos \in DOMAIN nodes
              THEN [ ok |-> TRUE, proof |-> Append(proof, nodes[peak_pos]) ]
              ELSE [ ok |-> FALSE, proof |-> proof ]
         ELSE GenPeakLoop(nodes, [ i \in 1..Len(pos_list) |-> <<pos_list[i], 0>> ],
                          proof, peak_pos)

\* MMR::gen_proof, the loop over the peaks
RECURSIVE GenProofPeaks(_, _, _, _, _)
GenProofPeaks(nodes, peaks, pos_list, proof, bagging_track) ==
    IF peaks = <<>>
    THEN [ ok |-> TRUE, proof |-> proof, pos_list |-> pos_list, bagging_track |-> bagging_track ]
    ELSE LET peak_pos == peaks[1]
             mine     == TakeWhileLE(pos_list, peak_pos)
             others   == SubSeq(pos_list, Len(mine) + 1, Len(pos_list))
             r        == gen_proof_for_peak(nodes, proof, mine, peak_pos)
         IN  IF ~r.ok
             THEN [ ok |-> FALSE, proof |-> proof, pos_list |-> others,
                    bagging_track |-> bagging_track ]
             ELSE GenProofPeaks(nodes, Tail(peaks), others, r.proof,
                                IF mine = <<>> THEN bagging_track + 1 ELSE 0)

\* MMR::gen_proof after the loop r over the peaks: the right-hand peaks
\* collected into the proof are bagged into one item
gen_proof_bagged(r) ==
    IF ~r.ok \/ r.pos_list # <<>> THEN [ ok |-> FALSE, proof |-> <<>> ]
    ELSE IF r.bagging_track > 1
         THEN LET n   == Len(r.proof)
                  rhs == SubSeq(r.proof, n - r.bagging_track + 1, n)
              IN  [ ok |-> TRUE,
                    proof |-> Append(SubSeq(r.proof, 1, n - r.bagging_track),
                                     bag_rhs_peaks(rhs)[1]) ]
         ELSE [ ok |-> TRUE, proof |-> r.proof ]

\* the positions are sorted and unique at every call site of the service
gen_proof(mmr, pos_list) ==
    IF pos_list = <<>> THEN [ ok |-> FALSE, proof |-> <<>> ]
    ELSE IF mmr.mmr_size = 1 /\ pos_list = <<0>> THEN [ ok |-> TRUE, proof |-> <<>> ]
    ELSE IF \E i \in 1..Len(pos_list) : pos_height_in_tree(pos_list[i]) > 0
         THEN [ ok |-> FALSE, proof |-> <<>> ]
    ELSE gen_proof_bagged(GenProofPeaks(mmr.nodes, get_peaks(mmr.mmr_size), pos_list, <<>>, 0))

(***************************************************************************)
(* MerkleProof::verify: recompute the root from the leaves and the proof   *)
(* items.  Queue entries are <<pos, item, height>>.                        *)
(***************************************************************************)
RECURSIVE calculate_peak_root(_, _, _)
calculate_peak_root(queue, peak_pos, proof) ==
    IF queue = <<>> THEN [ ok |-> FALSE, proof |-> proof ]
    ELSE LET pos    == queue[1][1]
             item   == queue[1][2]
             height == queue[1][3]
             rest   == Tail(queue)
         IN  IF pos = peak_pos
             THEN [ ok |-> (rest = <<>>), root |-> item, proof |-> proof ]
             ELSE LET is_right   == pos_height_in_tree(pos + 1) > height
                      sib_pos    == IF is_right THEN pos - sibling_offset(height)
                                                ELSE pos + sibling_offset(height)
                      parent_pos == IF is_right THEN pos + 1
                                                ELSE pos + parent_offset(height)
                      in_queue   == rest # <<>> /\ rest[1][1] = sib_pos
                  IN  IF ~in_queue /\ proof = <<>> THEN [ ok |-> FALSE, proof |-> proof ]
                      ELSE LET sibling == IF in_queue THEN rest[1][2] ELSE proof[1]
                               rest2   == IF in_queue THEN Tail(rest) ELSE rest
                               proof2  == IF in_queue THEN proof ELSE Tail(proof)
                               parent  == IF is_right THEN merge(sibling, item)
                                                      ELSE merge(item, sibling)
                           IN  IF parent_pos <= peak_pos
                               THEN calculate_peak_root(
                                        Append(rest2, <<parent_pos, parent, height + 1>>),
                                        peak_pos, proof2)
                               ELSE [ ok |-> FALSE, proof |-> proof2 ]

\* leaves: sorted sequence of <<pos, item>>
RECURSIVE TakeLeavesLE(_, _)
TakeLeavesLE(leaves, peak_pos) ==
    IF leaves = <<>> \/ leaves[1][1] > peak_pos THEN <<>>
    ELSE <<leaves[1]>> \o TakeLeavesLE(Tail(leaves), peak_pos)

RECURSIVE CalcPeaksLoop(_, _, _, _)
CalcPeaksLoop(peaks, leaves, proof, peaks_hashes) ==
    IF peaks = <<>>
    THEN [ ok |-> TRUE, leaves |-> leaves, proof |-> proof, peaks_hashes |-> peaks_hashes ]
    ELSE LET peak_pos == peaks[1]
             mine     == TakeLeavesLE(leaves, peak_pos)
             others   == SubSeq(leaves, Len(mine) + 1, Len(leaves))
         IN  IF Len(mine) = 1 /\ mine[1][1] = peak_pos
             THEN CalcPeaksLoop(Tail(peaks), others, proof, Append(peaks_hashes, mine[1][2]))
             ELSE IF mine = <<>>
                  THEN IF proof # <<>>
                       THEN CalcPeaksLoop(Tail(peaks), others, Tail(proof),
                                          Append(peaks_hashes, proof[1]))
                       ELSE [ ok |-> TRUE, leaves |-> others, proof |-> proof,
                              peaks_hashes |-> peaks_hashes ]
                  ELSE LET r == calculate_peak_root(
                                    [ i \in 1..Len(mine) |-> <<mine[i][1], mine[i][2], 0>> ],
                                    peak_pos, proof)
                       IN  IF ~r.ok
                           THEN [ ok |-> FALSE, leaves |-> others, proof |-> proof,
                                  peaks_hashes |-> peaks_hashes ]
                           ELSE CalcPeaksLoop(Tail(peaks), others, r.proof,
                                              Append(peaks_hashes, r.root))

\* calculate_root after the loop r over the peaks: the remaining proof item
\* is the bagged right-hand side
calculate_root_bagged(r) ==
    IF ~r.ok \/ r.leaves # <<>> \/ Len(r.proof) > 1
    THEN [ ok |-> FALSE, root |-> None ]
    ELSE LET hashes == r.peaks_hashes \o r.proof
         IN  IF hashes = <<>> THEN [ ok |-> FALSE, root |-> None ]
             ELSE [ ok |-> TRUE, root |-> Some(bag_rhs_peaks(hashes)[1]) ]

calculate_root(leaves, mmr_size, proof) ==
    IF mmr_size = 1 /\ Len(leaves) = 1 /\ leaves[1][1] = 0
    THEN [ ok |-> TRUE, root |-> Some(leaves[1][2]) ]
    ELSE calculate_root_bagged(CalcPeaksLoop(get_peaks(mmr_size), leaves, proof, <<>>))

verify(root, mmr_size, proof, leaves) ==
    calculate_root(leaves, mmr_size, proof) = [ ok |-> TRUE, root |-> Some(root) ]

(***************************************************************************)
(* The header store.  A storage value is the content of the KV store:      *)
(*   base_bitcoin_height, tip_bitcoin_height : Option<u32>                 *)
(*   headers    : height -> Header       (column bitcoin-headers)          *)
(*   header_mmr : position -> HeaderDigest (column bitcoin-header-mmr)     *)
(***************************************************************************)
EmptyStorage ==
    [ base_bitcoin_height |-> None, tip_bitcoin_height |-> None,
      headers |-> <<>>, header_mmr |-> <<>> ]

get_base_bitcoin_height(stg) == stg.base_bitcoin_height

get_tip_bitcoin_height(stg) ==
    IF IsSome(stg.tip_bitcoin_height)
    THEN [ ok |-> TRUE, height |-> Unwrap(stg.tip_bitcoin_height) ]
    ELSE [ ok |-> FALSE ]

get_bitcoin_header(stg, height) ==
    IF height \in DOMAIN stg.headers
    THEN [ ok |-> TRUE, header |-> stg.headers[height] ]
    ELSE [ ok |-> FALSE ]

\* variant: the header is not written
put_bitcoin_header_skipped(stg, height, header) == stg

put_bitcoin_header(stg, height, header) ==
    [ stg EXCEPT !.headers = Put(stg.headers, height, header) ]

put_tip_bitcoin_height(stg, height) == [ stg EXCEPT !.tip_bitcoin_height = Some(height) ]

put_base_bitcoin_height(stg, height) == [ stg EXCEPT !.base_bitcoin_height = Some(height) ]

\* variant: a node already present in the store is not overwritten
commit_keep_existing(stg, mmr) ==
    [ stg EXCEPT !.header_mmr =
        [ pos \in DOMAIN mmr.nodes \cup DOMAIN stg.header_mmr |->
            IF pos \in DOMAIN stg.header_mmr THEN stg.header_mmr[pos] ELSE mmr.nodes[pos] ] ]

\* mmr.commit(): the buffered nodes reach the store
commit(stg, mmr) == [ stg EXCEPT !.header_mmr = mmr.nodes ]

is_initialized(stg) == IsSome(get_base_bitcoin_height(stg))

\* variant: the size is computed from the number of leaves, not from the
\* index of the last leaf
chain_root_mmr_by_count(stg, current_height) ==
    IF ~IsSome(get_base_bitcoin_height(stg)) THEN [ ok |-> FALSE ]
    ELSE LET base_height == Unwrap(get_base_bitcoin_height(stg))
         IN  IF current_height < base_height THEN [ ok |-> FALSE ]
             ELSE LET index    == current_height - base_height + 1
                      mmr_size == leaf_index_to_mmr_size(index)
                  IN  [ ok |-> TRUE, base_height |-> base_height,
                        mmr |-> ClientRootMMR_new(mmr_size, stg.header_mmr) ]

chain_root_mmr(stg, current_height) ==
    IF ~IsSome(get_base_bitcoin_height(stg)) THEN [ ok |-> FALSE ]
    ELSE LET base_height == Unwrap(get_base_bitcoin_height(stg))
         IN  IF current_height < base_height THEN [ ok |-> FALSE ]
             ELSE LET index    == current_height - base_height
                      mmr_size == leaf_index_to_mmr_size(index)
                  IN  [ ok |-> TRUE, base_height |-> base_height,
                        mmr |-> ClientRootMMR_new(mmr_size, stg.header_mmr) ]

tip_state(stg) ==
    LET t == get_tip_bitcoin_height(stg)
    IN  IF ~t.ok THEN [ ok |-> FALSE ]
        ELSE LET h == get_bitcoin_header(stg, t.height)
             IN  IF ~h.ok THEN [ ok |-> FALSE ]
                 ELSE [ ok |-> TRUE, height |-> t.height, header |-> h.header ]

bitcoin_header_hash(stg, height) ==
    LET h == get_bitcoin_header(stg, height)
    IN  IF h.ok THEN [ ok |-> TRUE, hash |-> block_hash(h.header) ] ELSE [ ok |-> FALSE ]

\* initialize_with after the push p of the first leaf and the root of the MMR
initialize_with_root(stg, height, header, p, root) ==
    IF ~p.ok \/ ~root.ok THEN [ ok |-> FALSE, storage |-> stg ]
    ELSE LET s1 == commit(stg, p.mmr)
             s2 == put_bitcoin_header(s1, height, header)
             s3 == put_base_bitcoin_height(s2, height)
             s4 == put_tip_bitcoin_height(s3, height)
         IN  [ ok |-> TRUE, storage |-> s4,
               spv_client |-> [ id |-> 0,
                                tip_block_hash |-> block_hash(header),
                                headers_mmr_root |-> Unwrap(root.root) ] ]

initialize_with_pushed(stg, height, header, p) ==
    initialize_with_root(stg, height, header, p, get_root(p.mmr))

\* variant: a storage whose base is set is initialized again
initialize_with_overwriting(stg, height, header) ==
    initialize_with_pushed(stg, height, header,
        push(ClientRootMMR_new(0, stg.header_mmr),
             new_leaf(height, block_hash(header))))

initialize_with(stg, height, header) ==
    IF is_initialized(stg) THEN [ ok |-> FALSE, storage |-> stg ]
    ELSE initialize_with_pushed(stg, height, header,
             push(ClientRootMMR_new(0, stg.header_mmr),
                  new_leaf(height, block_hash(header))))

\* variant: any header is taken as the next one
is_continuous_unchecked(tip_hash, header) == TRUE

\* the continuity check of append_headers
is_continuous(tip_hash, header) == tip_hash = header.prev_blockhash

\* append_headers, the loop over the input: st carries the loop variables
\* and the storage as written so far.
RECURSIVE AppendLoop(_, _, _)
AppendLoop(headers, i, st) ==
    IF i > Len(headers) THEN st
    ELSE LET header == headers[i]
         IN  IF ~is_continuous(st.tip_hash, header) THEN [ st EXCEPT !.ok = FALSE ]
             ELSE LET tip_height == st.tip_height + 1
                      tip_hash   == block_hash(header)
                      digest     == new_leaf(tip_height, tip_hash)
                      stg1       == put_bitcoin_header(st.storage, tip_height, header)
                      p          == push(st.mmr, digest)
                  IN  IF ~p.ok
                      THEN [ st EXCEPT !.ok = FALSE, !.storage = stg1 ]
                      ELSE AppendLoop(headers, i + 1,
                               [ ok |-> TRUE, tip_height |-> tip_height, tip_header |-> header,
                                 tip_hash |-> tip_hash, storage |-> stg1, mmr |-> p.mmr ])

\* variant: the MMR is committed and the tip is moved to the last header
\* taken, also when the loop stopped at a header
append_headers_commit_partial(st) ==
    [ ok |-> st.ok,
      storage |-> put_tip_bitcoin_height(commit(st.storage, st.mmr), st.tip_height),
      tip_height |-> st.tip_height,
      tip_header |-> st.tip_header ]

\* append_headers after the loop st: the MMR is committed and the tip is
\* moved only if every header was taken
append_headers_commit(st) ==
    IF ~st.ok THEN [ ok |-> FALSE, storage |-> st.storage ]
    ELSE [ ok |-> TRUE,
           storage |-> put_tip_bitcoin_height(commit(st.storage, st.mmr), st.tip_height),
           tip_height |-> st.tip_height,
           tip_header |-> st.tip_header ]

\* append_headers from the tip state ts with the MMR crm of the tip
append_headers_mmr(stg, headers, ts, crm) ==
    IF ~crm.ok THEN [ ok |-> FALSE, storage |-> stg ]
    ELSE append_headers_commit(
             AppendLoop(headers, 1,
                        [ ok |-> TRUE, tip_height |-> ts.height, tip_header |-> ts.header,
                          tip_hash |-> block_hash(ts.header),
                          storage |-> stg, mmr |-> crm.mmr ]))

append_headers_tip(stg, headers, ts) ==
    IF ~ts.ok THEN [ ok |-> FALSE, storage |-> stg ]
    ELSE append_headers_mmr(stg, headers, ts, chain_root_mmr(stg, ts.height))

append_headers(stg, headers) ==
    IF headers = <<>> THEN [ ok |-> FALSE, storage |-> stg ]
    ELSE append_headers_tip(stg, headers, tip_state(stg))

\* variant: Some(h) moves the tip one above h
rollback_to_above(stg, height_opt) ==
    IF IsSome(height_opt)
    THEN [ ok |-> TRUE, storage |-> put_tip_bitcoin_height(stg, Unwrap(height_opt) + 1) ]
    ELSE IF IsSome(get_base_bitcoin_height(stg))
         THEN [ ok |-> TRUE,
                storage |-> put_tip_bitcoin_height(stg, Unwrap(get_base_bitcoin_height(stg))) ]
         ELSE [ ok |-> FALSE, storage |-> stg ]

rollback_to(stg, height_opt) ==
    IF IsSome(height_opt)
    THEN [ ok |-> TRUE, storage |-> put_tip_bitcoin_height(stg, Unwrap(height_opt)) ]
    ELSE IF IsSome(get_base_bitcoin_height(stg))
         THEN [ ok |-> TRUE,
                storage |-> put_tip_bitcoin_height(stg, Unwrap(get_base_bitcoin_height(stg))) ]
         ELSE [ ok |-> FALSE, storage |-> stg ]

\* variant: the positions are those of the leaves one height above
generate_headers_proof_shifted(stg, tip_height, heights) ==
    LET crm == chain_root_mmr(stg, tip_height)
    IN  IF ~crm.ok THEN [ ok |-> FALSE, proof |-> <<>> ]
        ELSE IF \E i \in 1..Len(heights) : heights[i] < crm.base_height
             THEN [ ok |-> FALSE, proof |-> <<>> ]
             ELSE LET positions == [ i \in 1..Len(heights) |->
                                       leaf_index_to_pos(heights[i] - crm.base_height + 1) ]
                  IN  gen_proof(crm.mmr, positions)

\* a height below the base makes `height - base_height` underflow: the call
\* panics or asks for a position no MMR of this size has; no proof either way
generate_headers_proof(stg, tip_height, heights) ==
    LET crm == chain_root_mmr(stg, tip_height)
    IN  IF ~crm.ok THEN [ ok |-> FALSE, proof |-> <<>> ]
        ELSE IF \E i \in 1..Len(heights) : heights[i] < crm.base_height
             THEN [ ok |-> FALSE, proof |-> <<>> ]
             ELSE LET positions == [ i \in 1..Len(heights) |->
                                       leaf_index_to_pos(heights[i] - crm.base_height) ]
                  IN  gen_proof(crm.mmr, positions)

generate_headers_root(stg, tip_height) ==
    LET crm == chain_root_mmr(stg, tip_height)
    IN  IF ~crm.ok THEN [ ok |-> FALSE, root |-> None ] ELSE get_root(crm.mmr)

base_state(stg) ==
    IF ~IsSome(get_base_bitcoin_height(stg)) THEN [ ok |-> FALSE ]
    ELSE LET h == get_bitcoin_header(stg, Unwrap(get_base_bitcoin_height(stg)))
         IN  IF ~h.ok THEN [ ok |-> FALSE ]
             ELSE [ ok |-> TRUE, height |-> Unwrap(get_base_bitcoin_height(stg)),
                    header |-> h.header ]

(***************************************************************************)
(* State.                                                                  *)
(***************************************************************************)
VARIABLES
    storage,              \* the KV store of the data directory
    btc_variant,          \* branch of the block tree the Bitcoin source follows
    btc_tip,       \* tip height of the Bitcoin source
    spv_instance,         \* the on-chain ring: info cell and client cells
    cached_spv_instance,  \* SpvRpcImpl.cached_spv_instance
    now,                  \* wall clock of the API service
    last_op,              \* the storage operation performed last
    sync_result,          \* outcome of the sync_storage call performed last
    rpc_result,           \* request and response of the getTxProof call performed last
    prev_tx_hash,         \* the serve loop's prev_tx_hash: the transaction sent last
    tx_status,            \* what the CKB node answers for that transaction
    sent,                 \* the transactions the serve loop sent, in order
    serve,                \* the serve loop: running or ended, and its last iteration
    call                  \* the pure function applied last: its arguments and result

vars == << storage, btc_variant, btc_tip, spv_instance, cached_spv_instance,
           now, last_op, sync_result, rpc_result, prev_tx_hash, tx_status, sent, serve,
           call >>

NoOp == [ op |-> "none", ok |-> TRUE, prev |-> "none" ]
NoSync == [ kind |-> "none" ]
NoRpc == [ kind |-> "none" ]
NoIteration == [ running |-> TRUE, outcome |-> "none", op |-> "none", cause |-> "none" ]
NoCall == [ op |-> "none" ]

Init ==
    /\ storage = EmptyStorage
    /\ btc_variant = 0
    /\ btc_tip = BaseHeight
    /\ spv_instance = None
    /\ cached_spv_instance = None
    /\ now = 0
    /\ last_op = NoOp
    /\ sync_result = NoSync
    /\ rpc_result = NoRpc
    /\ prev_tx_hash = None
    /\ tx_status = "none"
    /\ sent = <<>>
    /\ serve = NoIteration
    /\ call = NoCall

\* a step outside the serve loop
LoopUnchanged == UNCHANGED << prev_tx_hash, tx_status, sent, serve, call >>

\* a step outside the serve loop after which its last iteration is not the
\* latest step any more
LoopIdle ==
    /\ serve' = [ NoIteration EXCEPT !.running = serve.running ]
    /\ UNCHANGED << prev_tx_hash, tx_status, sent, call >>

base == Unwrap(storage.base_bitcoin_height)
tip == Unwrap(storage.tip_bitcoin_height)

(***************************************************************************)
(* The storage API called directly: any header of the block tree as the    *)
(* first header, any batch of headers, any rollback target in [base, tip]. *)
(***************************************************************************)
\* the headers of n consecutive heights of one branch, from height h
Segment(h, n, v) == [ i \in 1..n |-> HeaderOf(h + i - 1, v) ]

\* The batches handed to append_headers.  The loop stops at the first header
\* that does not continue the chain, so a batch is given up to that header:
\* consecutive headers of a branch, followed by any header.
Batches ==
    { <<>> } \cup
    UNION { { Append(Segment(h, n, v), x) :
                h \in { g \in Heights : g + n - 1 <= MaxHeight },
                v \in Variants, x \in AllHeaders } : n \in 0..(MaxBatch - 1) }

StorageUnchanged ==
    LoopUnchanged /\ UNCHANGED << btc_variant, btc_tip, spv_instance, cached_spv_instance,
                 now, sync_result, rpc_result >>

InitializeWith ==
    \E v \in Variants :
        \E r \in { initialize_with(storage, BaseHeight, HeaderOf(BaseHeight, v)) } :
            /\ storage' = r.storage
            /\ last_op' = [ op |-> "initialize_with", ok |-> r.ok, prev |-> last_op.op ]
            /\ StorageUnchanged

AppendHeaders ==
    /\ is_initialized(storage)
    /\ \E headers \in Batches :
        \E r \in { append_headers(storage, headers) } :
            /\ storage' = r.storage
            /\ last_op' = [ op |-> "append_headers", ok |-> r.ok, prev |-> last_op.op ]
            /\ StorageUnchanged

RollbackTo ==
    /\ is_initialized(storage)
    /\ \E height_opt \in { None } \cup { Some(h) : h \in base..tip } :
        \E r \in { rollback_to(storage, height_opt) } :
            /\ storage' = r.storage
            /\ last_op' = [ op |-> "rollback_to", ok |-> r.ok, prev |-> last_op.op ]
            /\ StorageUnchanged

NextStorage == InitializeWith \/ AppendHeaders \/ RollbackTo

SpecStorage == Init /\ [][NextStorage]_vars

(***************************************************************************)
(* Properties of the header store.                                         *)
(***************************************************************************)
\* the MMR root over [base, h], as chain_root_mmr(h) and get_root give it
RootAt(stg, h) ==
    LET crm == chain_root_mmr(stg, h)
    IN  IF ~crm.ok THEN [ ok |-> FALSE, root |-> None ] ELSE get_root(crm.mmr)

leaf_of(stg, h) == new_leaf(h, block_hash(stg.headers[h]))

leaf_pos(h) == leaf_index_to_pos(h - base)

\* The node an MMR over the stored headers of [base, ...] has at `pos`,
\* derived from the leaves alone.
RECURSIVE ExpectedNode(_, _)
ExpectedNode(stg, pos) ==
    LET k == pos_height_in_tree(pos)
    IN  IF k = 0
        THEN LET i == CHOOSE i \in 0..(2 * MaxHeight) : leaf_index_to_pos(i) = pos
             IN  leaf_of(stg, Unwrap(stg.base_bitcoin_height) + i)
        ELSE merge(ExpectedNode(stg, pos - Pow2(k)), ExpectedNode(stg, pos - 1))

\* A store built from scratch from the headers of [base, tip] of stg.
FreshBuild(stg) ==
    LET b  == Unwrap(stg.base_bitcoin_height)
        t  == Unwrap(stg.tip_bitcoin_height)
        i0 == initialize_with(EmptyStorage, b, stg.headers[b]).storage
    IN  IF t = b THEN i0
        ELSE append_headers(i0, [ i \in 1..(t - b) |-> stg.headers[b + i] ]).storage

\* a suffix was appended after a rollback and entries of the discarded
\* branch are still in the store above the tip
AppendedOverRollback ==
    /\ is_initialized(storage)
    /\ last_op.op = "append_headers" /\ last_op.ok /\ last_op.prev = "rollback_to"
    /\ tip >= base + 2
    /\ \E h \in DOMAIN storage.headers : h > tip
    /\ storage.headers[tip].nonce # 0

\* C3: after every storage operation, failed ones included, base <= tip and
\* a header is stored at every height of [base, tip].
Thm_C3_HeadersCoverRange ==
    is_initialized(storage) =>
        /\ base <= tip
        /\ \A h \in base..tip : h \in DOMAIN storage.headers

\* an append failed after some headers of the batch were written
Wit_C3_FailedAppendWrote ==
    /\ is_initialized(storage)
    /\ last_op.op = "append_headers" /\ ~last_op.ok
    /\ \E h \in DOMAIN storage.headers : h > tip

\* C4: every stored header above the base links to the stored header below it.
Thm_C4_PrevHashChain ==
    is_initialized(storage) =>
        \A h \in (base + 1)..tip :
            storage.headers[h].prev_blockhash = block_hash(storage.headers[h - 1])

Wit_C4_AppendedOverRollback == AppendedOverRollback /\ tip = base + 2

\* C5 as stated: the MMR built for the tip has the size
\* leaf_index_to_mmr_size(tip - base + 1) and holds the nodes of the leaves.
Orig_C5_MmrSizeSpecFormula ==
    is_initialized(storage) =>
        LET crm == chain_root_mmr(storage, tip)
        IN  /\ crm.ok
            /\ crm.mmr.mmr_size = leaf_index_to_mmr_size(tip - base + 1)
            /\ \A pos \in 0..(crm.mmr.mmr_size - 1) :
                   /\ pos \in DOMAIN storage.header_mmr
                   /\ storage.header_mmr[pos] = ExpectedNode(storage, pos)

\* C5 amended: the MMR built for the tip has tip - base + 1 leaves, its size
\* is leaf_index_to_mmr_size(tip - base) (the argument is the index of the
\* last leaf), and every position below the size holds the node derived
\* from the stored headers of [base, tip].
Thm_C5_MmrCoversRange ==
    is_initialized(storage) =>
        LET crm == chain_root_mmr(storage, tip)
        IN  /\ crm.ok
            /\ crm.mmr.mmr_size = leaf_index_to_mmr_size(tip - base)
            /\ Cardinality({ pos \in 0..(crm.mmr.mmr_size - 1) : pos_height_in_tree(pos) = 0 })
                   = tip - base + 1
            /\ \A pos \in 0..(crm.mmr.mmr_size - 1) :
                   /\ pos \in DOMAIN storage.header_mmr
                   /\ storage.header_mmr[pos] = ExpectedNode(storage, pos)

Wit_C5_MmrAfterRollbackAppend ==
    AppendedOverRollback /\ \E pos \in DOMAIN storage.header_mmr :
                                pos >= leaf_index_to_mmr_size(tip - base)

\* C6: the store has the tip, the tip header and the MMR root at every
\* height of [base, tip] (and the proofs against the tip) of a store built
\* from scratch from the headers of [base, tip].
Thm_C6_RollbackAppendEqualsFresh ==
    is_initialized(storage) =>
        \A fresh \in { FreshBuild(storage) } :
            /\ fresh.tip_bitcoin_height = storage.tip_bitcoin_height
            /\ tip_state(fresh) = tip_state(storage)
            /\ \A h \in base..tip :
                   /\ RootAt(storage, h).ok
                   /\ RootAt(storage, h) = RootAt(fresh, h)
                   /\ generate_headers_proof(storage, tip, <<h>>)
                          = generate_headers_proof(fresh, tip, <<h>>)

Wit_C6_DifferentSuffixAppended ==
    /\ AppendedOverRollback
    /\ \E pos \in DOMAIN storage.header_mmr :
           /\ pos >= leaf_index_to_mmr_size(tip - base)
           /\ storage.header_mmr[pos].children_hash[1] = 1

\* the leaves a header of the block tree at height h can make
LeavesAt(h) == { new_leaf(h, block_hash(hd)) : hd \in { x \in AllHeaders : x.time = h } }

\* C7: for every h of [base, tip] generate_headers_proof(tip, [h]) verifies
\* the leaf of h against the MMR root at tip; for a height outside the range
\* no proof is produced, and no leaf of such a height verifies with a proof
\* of the range.
Thm_C7_ProofRoundTrip ==
    is_initialized(storage) =>
        \A root \in { Unwrap(RootAt(storage, tip).root) },
           mmr_size \in { chain_root_mmr(storage, tip).mmr.mmr_size } :
            \A h \in Heights :
                \A pr \in { generate_headers_proof(storage, tip, <<h>>) } :
                    IF h \in base..tip
                    THEN /\ pr.ok
                         /\ verify(root, mmr_size, pr.proof,
                                   << <<leaf_pos(h), leaf_of(storage, h)>> >>)
                    ELSE /\ ~pr.ok
                         /\ \A h2 \in base..tip, leaf \in LeavesAt(h) :
                              \A p2 \in { generate_headers_proof(storage, tip, <<h2>>).proof } :
                                /\ ~verify(root, mmr_size, p2, << <<leaf_pos(h2), leaf>> >>)
                                /\ h > tip =>
                                     ~verify(root, mmr_size, p2, << <<leaf_pos(h), leaf>> >>)

Wit_C7_ProofAfterRollbackAppend ==
    /\ AppendedOverRollback
    /\ tip = base + 2
    /\ Len(generate_headers_proof(storage, tip, <<base>>).proof) = 2

(***************************************************************************)
(* The Bitcoin source client.                                              *)
(***************************************************************************)
get_tip_state(v, t) == [ height |-> t, header |-> HeaderOf(t, v) ]

get_block_header_by_height(v, height) == HeaderOf(height, v)

\* get_headers(start, end, expected_start_prev_hash): the headers of
\* [start, end], or None when a header does not link to the one before it.
get_headers(v, start, end, prev_hash) ==
    LET headers == [ i \in 1..(end - start + 1) |-> HeaderOf(start + i - 1, v) ]
        linked  == \A i \in 1..Len(headers) :
                       headers[i].prev_blockhash =
                           IF i = 1 THEN prev_hash ELSE block_hash(headers[i - 1])
    IN  IF linked THEN Some(headers) ELSE None

(***************************************************************************)
(* SpvService::sync_storage.                                               *)
(***************************************************************************)
\* the fork search: every height from `height` down to the base is visited
RECURSIVE ForkSearch(_, _, _, _, _)
ForkSearch(stg, v, stg_base_height, height, fork_point) ==
    IF height < stg_base_height THEN [ ok |-> TRUE, fork_point |-> fork_point ]
    ELSE LET stg_hash == bitcoin_header_hash(stg, height)
             btc_hash == block_hash(get_block_header_by_height(v, height))
         IN  IF ~stg_hash.ok THEN [ ok |-> FALSE, fork_point |-> fork_point ]
             ELSE ForkSearch(stg, v, stg_base_height, height - 1,
                             IF stg_hash.hash = btc_hash
                             THEN Some(<<height, btc_hash>>)
                             ELSE fork_point)

SyncErr(stg, path) ==
    [ kind |-> "err", caught_up |-> FALSE, path |-> path, fork_point |-> None,
      storage |-> stg ]

\* variant: a storage one block behind the source counts as caught up
storage_not_behind_by_one(stg_tip_height, btc_tip_height) ==
    stg_tip_height + 1 >= btc_tip_height

\* the early return of sync_storage
storage_not_behind(stg_tip_height, btc_tip_height) == stg_tip_height >= btc_tip_height

\* sync_storage after the download: the headers are appended, or the call
\* ends not caught up when the source gave none
sync_storage_append(stg, headers, a, path, fork_point) ==
    IF ~IsSome(headers)
    THEN [ kind |-> "ok", caught_up |-> FALSE, path |-> path,
           fork_point |-> fork_point, storage |-> stg ]
    ELSE IF ~a.ok
         THEN [ SyncErr(a.storage, path) EXCEPT !.fork_point = fork_point ]
         ELSE [ kind |-> "ok", caught_up |-> TRUE, path |-> path,
                fork_point |-> fork_point, storage |-> a.storage ]

sync_storage_download(stg, headers, path, fork_point) ==
    sync_storage_append(stg, headers, append_headers(stg, Unwrap(headers)), path, fork_point)

\* variant: without a fork point the storage is rolled back to its base
sync_storage_fork_to_base(stg, v, btc_tip_height, remote, fs) ==
    IF ~fs.ok THEN SyncErr(stg, "fork")
    ELSE IF ~IsSome(fs.fork_point) THEN SyncErr(rollback_to(stg, None).storage, "fork")
    ELSE sync_storage_download(
             rollback_to(stg, Some(Unwrap(fs.fork_point)[1])).storage,
             get_headers(v, Unwrap(fs.fork_point)[1] + 1, btc_tip_height,
                         Unwrap(fs.fork_point)[2]),
             "fork", fs.fork_point)

\* sync_storage on the fork path, after the fork search fs
sync_storage_fork(stg, v, btc_tip_height, remote, fs) ==
    IF ~fs.ok \/ ~IsSome(fs.fork_point) THEN SyncErr(stg, "fork")
    ELSE LET fork_height == Unwrap(fs.fork_point)[1]
             fork_hash   == Unwrap(fs.fork_point)[2]
             rb          == rollback_to(stg, Some(fork_height))
         IN  IF ~rb.ok THEN SyncErr(stg, "fork")
             ELSE IF remote = "fail_download"
             THEN [ SyncErr(rb.storage, "fork") EXCEPT !.fork_point = fs.fork_point ]
             ELSE sync_storage_download(
                      rb.storage,
                      IF remote = "changed" THEN None
                      ELSE get_headers(v, fork_height + 1, btc_tip_height, fork_hash),
                      "fork", fs.fork_point)

\* sync_storage from the tip state ts of the storage
sync_storage_tip(stg, v, t, remote, ts) ==
    IF ~ts.ok \/ remote = "fail" THEN SyncErr(stg, "start")
    ELSE LET stg_tip_height == ts.height
             stg_tip_hash   == block_hash(ts.header)
             btc_tip_height == get_tip_state(v, t).height
             bs             == base_state(stg)
         IN
         IF storage_not_behind(stg_tip_height, btc_tip_height)
         THEN [ kind |-> "ok", caught_up |-> TRUE, path |-> "uptodate",
                fork_point |-> None, storage |-> stg ]
         ELSE IF stg_tip_hash = block_hash(get_block_header_by_height(v, stg_tip_height))
         THEN IF remote = "fail_download" THEN SyncErr(stg, "linear")
              ELSE sync_storage_download(
                       stg,
                       IF remote = "changed" THEN None
                       ELSE get_headers(v, stg_tip_height + 1, btc_tip_height, stg_tip_hash),
                       "linear", None)
         ELSE IF ~bs.ok THEN SyncErr(stg, "fork")
              ELSE sync_storage_fork(
                       stg, v, btc_tip_height, remote,
                       ForkSearch(stg, v, bs.height, stg_tip_height - 1, None))

\* remote: "ok", "fail" (a call to the source fails before the download),
\* "fail_download" (the download fails), "changed" (the source reorganises
\* during the download, which get_headers reports as None)
sync_storage(stg, v, t, remote) == sync_storage_tip(stg, v, t, remote, tip_state(stg))

(***************************************************************************)
(* The on-chain ring and the `init` command.                               *)
(***************************************************************************)
\* spv_clients_count of the instance
ClientsCount == 5
\* number of ring transactions (creation, Update, Reorg) a run submits
MaxTx == 2

ClientIds == 0..(ClientsCount - 1)

\* the cells of a new ring: the info cell with tip_client_id = 0 (output 0)
\* and clients_count copies of the initial client, with ids 0 ..
\* clients_count - 1 (outputs 1 .. clients_count)
NewSpvInstance(spv_client) ==
    [ tip_client_id |-> 0,
      clients |-> [ id \in ClientIds |->
                      [ id |-> id,
                        tip_block_hash |-> spv_client.tip_block_hash,
                        headers_mmr_root |-> spv_client.headers_mmr_root,
                        out_point |-> <<0, id + 1>> ] ],
      tx_count |-> 1 ]

InitService ==
    /\ ~is_initialized(storage)
    /\ BaseHeight <= btc_tip
    /\ \E r \in { initialize_with(storage, BaseHeight,
                                    get_block_header_by_height(btc_variant, BaseHeight)) } :
           /\ r.ok
           /\ storage' = r.storage
           /\ spv_instance' = Some(NewSpvInstance(r.spv_client))
           /\ last_op' = [ op |-> "initialize_with", ok |-> r.ok, prev |-> "none" ]
    /\ sync_result' = NoSync
    /\ rpc_result' = NoRpc
    /\ LoopIdle /\ UNCHANGED << btc_variant, btc_tip, cached_spv_instance, now >>

(***************************************************************************)
(* The Bitcoin source: a new block on the branch it follows, or a switch   *)
(* to another branch of the block tree.                                    *)
(***************************************************************************)
BtcExtendUpTo(max) ==
    /\ btc_tip < max
    /\ btc_tip' = btc_tip + 1
    /\ sync_result' = NoSync
    /\ rpc_result' = NoRpc
    /\ LoopIdle /\ UNCHANGED << storage, btc_variant, spv_instance, cached_spv_instance, now, last_op >>

BtcReorgUpTo(max) ==
    /\ \E v \in Variants \ {btc_variant}, t \in BaseHeight..max :
           /\ btc_variant' = v
           /\ btc_tip' = t
    /\ sync_result' = NoSync
    /\ rpc_result' = NoRpc
    /\ LoopIdle /\ UNCHANGED << storage, spv_instance, cached_spv_instance, now, last_op >>

BtcExtend == BtcExtendUpTo(MaxHeight)
BtcReorg == BtcReorgUpTo(MaxHeight)

SyncRemotes == { "ok", "fail", "fail_download", "changed" }

SyncStorage ==
    /\ is_initialized(storage)
    /\ \E remote \in SyncRemotes :
        \E r \in { sync_storage(storage, btc_variant, btc_tip, remote) } :
            /\ storage' = r.storage
            /\ sync_result' = [ kind |-> r.kind, caught_up |-> r.caught_up, path |-> r.path,
                                fork_point |-> r.fork_point, storage_before |-> storage ]
            /\ last_op' = [ op |-> "sync_storage", ok |-> (r.kind = "ok"), prev |-> "none" ]
    /\ rpc_result' = NoRpc
    /\ LoopUnchanged /\ UNCHANGED << btc_variant, btc_tip, spv_instance, cached_spv_instance, now >>

NextSync == InitService \/ BtcExtend \/ BtcReorg \/ SyncStorage

SpecSync == Init /\ [][NextSync]_vars

(***************************************************************************)
(* Properties of sync_storage.                                             *)
(***************************************************************************)
tip_before == Unwrap(sync_result.storage_before.tip_bitcoin_height)

\* heights of [base, storage_tip - 1] at which the storage, as it was when
\* sync_storage was called, and the source have the same header hash
CommonHeights ==
    { h \in base..(tip_before - 1) :
        block_hash(sync_result.storage_before.headers[h]) = BlockHashOf(h, btc_variant) }

Max(S) == CHOOSE x \in S : \A y \in S : y <= x

\* C1: on the fork path the fork point is the greatest height of
\* [base, storage_tip - 1] at which storage and source agree, and the
\* storage is rolled back to exactly that height.
Orig_C1_ForkPointIsGreatestCommon ==
    (sync_result.kind # "none" /\ sync_result.path = "fork" /\ IsSome(sync_result.fork_point)) =>
        /\ CommonHeights # {}
        /\ Unwrap(sync_result.fork_point)[1] = Max(CommonHeights)

\* C2: a caught-up sync_storage against a longer source leaves the storage
\* equal to the source on [base, source tip].
Thm_C2_CaughtUpEqualsSource ==
    (sync_result.kind = "ok" /\ sync_result.caught_up /\ btc_tip > tip_before) =>
        /\ tip = btc_tip
        /\ \A h \in base..tip :
               /\ h \in DOMAIN storage.headers
               /\ storage.headers[h] = HeaderOf(h, btc_variant)
        /\ RootAt(storage, tip) = RootAt(FreshBuild(storage), tip)

\* the fork case: the old tip was not on the source chain
Wit_C2_ForkResynced ==
    /\ sync_result.kind = "ok" /\ sync_result.caught_up /\ sync_result.path = "fork"
    /\ btc_tip > tip_before
    /\ tip_before >= base + 2
    /\ sync_result.storage_before.headers[tip_before] # HeaderOf(tip_before, btc_variant)

(***************************************************************************)
(* 32-bit unsigned integers of heights, limits and RPC parameters, kept as  *)
(* two 16-bit limbs so that sums near 2^32 keep their width.               *)
(***************************************************************************)
Limb == Pow2(16)

U32(n) == [ hi |-> n \div Limb, lo |-> n % Limb ]

\* 2^32 - k, for 1 <= k <= 2^16
U32FromTop(k) == [ hi |-> Limb - 1, lo |-> Limb - k ]

add_overflows(a, b) == a.hi + b.hi + ((a.lo + b.lo) \div Limb) >= Limb

wrapping_add(a, b) ==
    [ hi |-> (a.hi + b.hi + ((a.lo + b.lo) \div Limb)) % Limb,
      lo |-> (a.lo + b.lo) % Limb ]

U32Lt(a, b) == a.hi < b.hi \/ (a.hi = b.hi /\ a.lo < b.lo)

(***************************************************************************)
(* The ring model (SpvInstance) and the decision of the serve loop.        *)
(***************************************************************************)
\* spv_headers_update_limit of the serve command
UpdateLimit == 2

\* variant: the ring is walked forwards
prev_tip_client_id_forwards(tip_client_id, clients_count) ==
    IF tip_client_id + 1 < clients_count THEN tip_client_id + 1 ELSE 0

\* ids and clients_count are u8: the arithmetic wraps at 2^8
U8Size == 256

prev_tip_client_id(tip_client_id, clients_count) ==
    IF tip_client_id = 0 THEN (clients_count - 1) % U8Size
                         ELSE (tip_client_id - 1) % U8Size

\* variant: the last id of the ring is followed by clients_count, not by 0
next_tip_client_id_past_end(tip_client_id, clients_count) ==
    IF (tip_client_id + 1) % U8Size <= clients_count
    THEN (tip_client_id + 1) % U8Size ELSE 0

next_tip_client_id(tip_client_id, clients_count) ==
    IF (tip_client_id + 1) % U8Size < clients_count
    THEN (tip_client_id + 1) % U8Size ELSE 0

clients_len(ins) == Cardinality(DOMAIN ins.clients)

RECURSIVE FindBestLoop(_, _, _, _)
FindBestLoop(ins, tip_client_id, height, n) ==
    IF n = 0 THEN [ ok |-> FALSE ]
    ELSE IF tip_client_id \notin DOMAIN ins.clients THEN [ ok |-> FALSE ]
    ELSE LET cell == ins.clients[tip_client_id]
         IN  IF cell.headers_mmr_root.max_height <= height
             THEN [ ok |-> TRUE, cell |-> cell ]
             ELSE FindBestLoop(ins, prev_tip_client_id(tip_client_id, clients_len(ins)),
                               height, n - 1)

find_best_spv_client_not_greater_than_height(ins, height) ==
    FindBestLoop(ins, ins.tip_client_id, height, clients_len(ins))

\* the client `count` positions before the tip client
RECURSIVE BeforeTipLoop(_, _, _)
BeforeTipLoop(ins, tip_client_id, count) ==
    IF count = 0
    THEN IF tip_client_id \in DOMAIN ins.clients
         THEN [ ok |-> TRUE, cell |-> ins.clients[tip_client_id] ]
         ELSE [ ok |-> FALSE ]
    ELSE BeforeTipLoop(ins, prev_tip_client_id(tip_client_id, clients_len(ins)), count - 1)

find_spv_client_before_tip(ins, count) == BeforeTipLoop(ins, ins.tip_client_id, count)

\* the client and the update, from the root and the proof of the new headers
spv_client_and_spv_update(stg, prev_height, tip_height, tip_header, root, proof) ==
    IF ~root.ok \/ ~proof.ok THEN [ ok |-> FALSE ]
    ELSE IF \E i \in 1..(tip_height - prev_height) :
                ~get_bitcoin_header(stg, prev_height + i).ok
         THEN [ ok |-> FALSE ]
         ELSE [ ok |-> TRUE,
                spv_client |-> [ id |-> 0,
                                 tip_block_hash |-> block_hash(tip_header.header),
                                 headers_mmr_root |-> Unwrap(root.root) ],
                headers |-> [ i \in 1..(tip_height - prev_height) |->
                                stg.headers[prev_height + i] ],
                new_headers_mmr_proof |-> proof.proof ]

\* tip_height of generate_spv_client_and_spv_update: the storage tip, capped
\* by prev_height + limit computed in 32 bits (the sum below the storage tip
\* has a zero high limb)
capped_tip_height(height, prev_height, limit) ==
    IF U32Lt(wrapping_add(U32(prev_height), limit), U32(height))
    THEN wrapping_add(U32(prev_height), limit).lo
    ELSE height

\* the client and the update for the tip height chosen
generate_spv_client_and_spv_update_to(stg, prev_height, tip_height, tip_header, crm) ==
    IF ~tip_header.ok \/ ~crm.ok THEN [ ok |-> FALSE ]
    ELSE spv_client_and_spv_update(
             stg, prev_height, tip_height, tip_header,
             get_root(crm.mmr),
             gen_proof(crm.mmr,
                       [ i \in 1..(tip_height - prev_height) |->
                           leaf_index_to_pos(prev_height + i - crm.base_height) ]))

generate_spv_client_and_spv_update_capped(stg, prev_height, tip_height) ==
    generate_spv_client_and_spv_update_to(stg, prev_height, tip_height,
                                          get_bitcoin_header(stg, tip_height),
                                          chain_root_mmr(stg, tip_height))

\* The new client and the headers of an update from prev_height.  limit is a
\* 32-bit value; a build with overflow checks panics when prev_height + limit
\* does not fit in 32 bits.
generate_spv_client_and_spv_update(stg, prev_height, limit, overflow_checks) ==
    IF ~get_tip_bitcoin_height(stg).ok THEN [ ok |-> FALSE ]
    ELSE IF overflow_checks /\ add_overflows(U32(prev_height), limit)
         THEN [ ok |-> FALSE, panicked |-> TRUE ]
         ELSE generate_spv_client_and_spv_update_capped(
                  stg, prev_height,
                  capped_tip_height(get_tip_bitcoin_height(stg).height, prev_height, limit))

RECURSIVE ReorgLoop(_, _, _, _, _)
ReorgLoop(stg, ins, tip_client_id, stale, n) ==
    IF n = 0 THEN [ ok |-> FALSE ]
    ELSE IF tip_client_id \notin DOMAIN ins.clients THEN [ ok |-> FALSE ]
    ELSE LET cell     == ins.clients[tip_client_id]
             stg_root == generate_headers_root(stg, cell.headers_mmr_root.max_height)
         IN  IF ~stg_root.ok THEN [ ok |-> FALSE ]
             ELSE IF Unwrap(stg_root.root) = cell.headers_mmr_root
                  THEN [ ok |-> TRUE, tip_client_id |-> tip_client_id, curr |-> cell,
                         stale |-> stale ]
                  ELSE ReorgLoop(stg, ins, prev_tip_client_id(tip_client_id, clients_len(ins)),
                                 Append(stale, cell), n - 1)

prepare_reorg_input(stg, ins) == ReorgLoop(stg, ins, ins.tip_client_id, <<>>, clients_len(ins))

\* variant: the roots are compared by their height range only
select_operation_by_heights(stg, ins) ==
    IF ins.tip_client_id \notin DOMAIN ins.clients THEN [ ok |-> FALSE ]
    ELSE LET spv_client_curr == ins.clients[ins.tip_client_id]
             stg_root == generate_headers_root(stg, spv_client_curr.headers_mmr_root.max_height)
         IN  IF ~stg_root.ok THEN [ ok |-> FALSE ]
             ELSE IF Unwrap(stg_root.root).max_height # spv_client_curr.headers_mmr_root.max_height
                  THEN [ ok |-> FALSE ]
                  ELSE [ ok |-> TRUE, op |-> "Update",
                         input |-> [ curr |-> spv_client_curr,
                                     next |-> ins.clients[next_tip_client_id(
                                                  ins.tip_client_id, clients_len(ins))] ] ]

select_operation(stg, ins) ==
    IF ins.tip_client_id \notin DOMAIN ins.clients THEN [ ok |-> FALSE ]
    ELSE LET spv_client_curr == ins.clients[ins.tip_client_id]
             stg_root == generate_headers_root(stg, spv_client_curr.headers_mmr_root.max_height)
         IN  IF ~stg_root.ok THEN [ ok |-> FALSE ]
             ELSE IF Unwrap(stg_root.root) # spv_client_curr.headers_mmr_root
                  THEN LET input == prepare_reorg_input(stg, ins)
                       IN  IF ~input.ok THEN [ ok |-> FALSE ]
                           ELSE [ ok |-> TRUE, op |-> "Reorg", input |-> input ]
                  ELSE [ ok |-> TRUE, op |-> "Update",
                         input |-> [ curr |-> spv_client_curr,
                                     next |-> ins.clients[next_tip_client_id(
                                                  ins.tip_client_id, clients_len(ins))] ] ]

\* the ring after the Update transaction: `next` is replaced by the new client
update_spv_cells(ins, input, spv_client) ==
    [ tip_client_id |-> input.next.id,
      clients |-> [ ins.clients EXCEPT ![input.next.id] =
                      [ id |-> input.next.id,
                        tip_block_hash |-> spv_client.tip_block_hash,
                        headers_mmr_root |-> spv_client.headers_mmr_root,
                        out_point |-> <<ins.tx_count, 1>> ] ],
      tx_count |-> ins.tx_count + 1 ]

\* the ring after the Reorg transaction: every stale client is replaced by
\* the new client under its own id
reorg_spv_cells(ins, input, spv_client) ==
    LET stale_ids == { input.stale[i].id : i \in 1..Len(input.stale) }
        index(id) == CHOOSE i \in 1..Len(input.stale) : input.stale[i].id = id
    IN  [ tip_client_id |-> next_tip_client_id(input.tip_client_id, clients_len(ins)),
          clients |-> [ id \in DOMAIN ins.clients |->
                          IF id \in stale_ids
                          THEN [ id |-> id,
                                 tip_block_hash |-> spv_client.tip_block_hash,
                                 headers_mmr_root |-> spv_client.headers_mmr_root,
                                 out_point |-> <<ins.tx_count, index(id)>> ]
                          ELSE ins.clients[id] ],
          tx_count |-> ins.tx_count + 1 ]

\* the ring after the transaction of the selected operation
ServeCells(ins, sel, g) ==
    IF ~g.ok THEN ins
    ELSE IF sel.op = "Update"
         THEN update_spv_cells(ins, sel.input, g.spv_client)
         ELSE reorg_spv_cells(ins, sel.input, g.spv_client)

\* an Update is skipped when the ring's tip client is at the storage tip
ServeSelectedWith(stg, ins, sel, t, limit) ==
    IF ~sel.ok \/ ~t.ok THEN ins
    ELSE IF sel.op = "Update" /\ t.height <= sel.input.curr.headers_mmr_root.max_height
         THEN ins
         ELSE ServeCells(ins, sel,
                         generate_spv_client_and_spv_update(
                             stg, sel.input.curr.headers_mmr_root.max_height,
                             U32(limit), FALSE))

ServeSelected(stg, ins, sel, t) == ServeSelectedWith(stg, ins, sel, t, UpdateLimit)

\* One decision of the serve loop after a caught-up sync_storage, with the
\* transaction it submits taken as committed.  The instance is a testnet
\* instance: a Reorg is capped by spv_headers_update_limit as an Update is.
ServeResultWith(stg, ins, limit) ==
    ServeSelectedWith(stg, ins, select_operation(stg, ins), get_tip_bitcoin_height(stg), limit)

ServeResult(stg, ins) == ServeResultWith(stg, ins, UpdateLimit)

\* One iteration of the serve loop: sync_storage and, when it reports
\* caught-up, the decision and the transaction.  The ring stops changing
\* once max_tx transactions were committed.
ServeIterationWith(remotes, max_tx, limit) ==
    /\ is_initialized(storage)
    /\ IsSome(spv_instance)
    /\ \E remote \in remotes :
        \E r \in { sync_storage(storage, btc_variant, btc_tip, remote) },
           ins \in { Unwrap(spv_instance) } :
            /\ storage' = r.storage
            /\ last_op' = [ op |-> "sync_storage", ok |-> (r.kind = "ok"), prev |-> "none" ]
            /\ spv_instance' = IF r.kind = "ok" /\ r.caught_up /\ ins.tx_count <= max_tx
                               THEN Some(ServeResultWith(r.storage, ins, limit))
                               ELSE spv_instance
    /\ sync_result' = NoSync
    /\ rpc_result' = NoRpc
    /\ LoopUnchanged /\ UNCHANGED << btc_variant, btc_tip, cached_spv_instance, now >>

ServeIterationOf(remotes, max_tx) == ServeIterationWith(remotes, max_tx, UpdateLimit)

ServeIteration == ServeIterationOf(SyncRemotes, MaxTx)

\* The serve loop followed until every client of the ring was rewritten: the
\* source grows to MaxRingHeight, the ring takes MaxRingTx transactions and
\* every call of the source succeeds.
MaxRingTx == 5
MaxRingHeight == 7

NextRing ==
    \/ InitService
    \/ BtcExtendUpTo(MaxRingHeight)
    \/ BtcReorgUpTo(MaxRingHeight)
    \/ ServeIterationOf({ "ok" }, MaxRingTx)

SpecRing == Init /\ [][NextRing]_vars

(***************************************************************************)
(* The serve loop with the CKB node: a transaction sent is pending until   *)
(* the node proposes and commits it, rejects it or drops it.               *)
(***************************************************************************)
\* transactions the serve loop sends in a run of the model
MaxSent == 3

\* source tip up to which the serve loop is followed
MaxServeHeight == 3

\* The transaction built from the selected operation and the generated
\* client; it stands for its hash.
SpvTx(sel, g) ==
    [ op |-> sel.op, input |-> sel.input, spv_client |-> g.spv_client, headers |-> g.headers ]

\* the iteration ends with the error of the call `cause`
IterationError(cause) == [ outcome |-> "error", op |-> "none", tx |-> None, cause |-> cause ]

\* the iteration ends without an error
IterationDone(outcome, op, tx) == [ outcome |-> outcome, op |-> op, tx |-> tx, cause |-> "none" ]

\* variant: only a pending transaction makes the loop wait
tx_in_pool_pending_only(status) == status = "Pending"

\* the transaction status that makes the loop wait
tx_in_pool(status) == status \in { "Pending", "Proposed" }

\* variant: only a storage tip below the on-chain tip client means no update
no_updates_when_below(stg_tip_height, spv_tip_height) == stg_tip_height < spv_tip_height

\* no update: the storage tip is not above the on-chain tip client
no_updates(stg_tip_height, spv_tip_height) == stg_tip_height <= spv_tip_height

\* update_spv_cells / reorg_spv_cells: the transaction is built and sent
serve_send(sel, g, ckb) ==
    IF ~g.ok THEN [ IterationError("generate_spv_client_and_spv_update") EXCEPT !.op = sel.op ]
    ELSE IF ckb = "fail_send" THEN [ IterationError("send_transaction") EXCEPT !.op = sel.op ]
         ELSE IterationDone("submitted", sel.op, Some(SpvTx(sel, g)))

\* the match on the selected operation
serve_selected(stg, sel, t, ckb) ==
    IF ~t.ok THEN IterationError("tip_state")
    ELSE IF ~sel.ok THEN IterationError("select_operation")
         ELSE IF sel.op = "Update"
                 /\ no_updates(t.height, sel.input.curr.headers_mmr_root.max_height)
              THEN IterationDone("no_update", sel.op, None)
              ELSE serve_send(sel,
                              generate_spv_client_and_spv_update(
                                  stg, sel.input.curr.headers_mmr_root.max_height,
                                  U32(UpdateLimit), FALSE),
                              ckb)

\* variant: the loop waits on a transaction sent earlier whatever its status
serve_caught_up_waiting(stg, ins, prev, status, ckb) ==
    IF IsSome(prev) /\ ckb = "fail_status" THEN IterationError("get_transaction_status")
    ELSE IF IsSome(prev)
         THEN IterationDone("waiting", "none", None)
         ELSE IF ckb = "fail_select" THEN IterationError("find_spv_cells")
              ELSE serve_selected(stg, select_operation(stg, ins), tip_state(stg), ckb)

\* The iteration after a caught-up sync_storage: the status of the
\* transaction sent last, then the decision.  ckb is the answer of the CKB
\* node: "ok", or the remote call that fails.
serve_caught_up(stg, ins, prev, status, ckb) ==
    IF IsSome(prev) /\ ckb = "fail_status" THEN IterationError("get_transaction_status")
    ELSE IF IsSome(prev) /\ tx_in_pool(status)
         THEN IterationDone("waiting", "none", None)
         ELSE IF ckb = "fail_select" THEN IterationError("find_spv_cells")
              ELSE serve_selected(stg, select_operation(stg, ins), tip_state(stg), ckb)

\* one iteration of the loop of `serve`, from the result r of sync_storage
\* with the answer `remote` of the Bitcoin source
serve_iteration(r, remote, ins, prev, status, ckb) ==
    IF r.kind # "ok"
    THEN IterationError(IF remote = "fail" THEN "get_tip_height" ELSE "sync_storage")
    ELSE IF ~r.caught_up THEN IterationDone("not_caught_up", "none", None)
         ELSE serve_caught_up(r.storage, ins, prev, status, ckb)

CkbRemotes == { "ok", "fail_status", "fail_select", "fail_send" }

\* One iteration of the serve loop.  An error of any step ends execute, and
\* the loop with it.
ServeLoopWith(sync_remotes, ckb_remotes, max_sent) ==
    /\ serve.running
    /\ is_initialized(storage)
    /\ IsSome(spv_instance)
    /\ Len(sent) < max_sent
    /\ \E remote \in sync_remotes, ckb \in ckb_remotes :
        \E r \in { sync_storage(storage, btc_variant, btc_tip, remote) } :
            \E o \in { serve_iteration(r, remote, Unwrap(spv_instance), prev_tx_hash,
                                           tx_status, ckb) } :
                /\ storage' = r.storage
                /\ last_op' = [ op |-> "sync_storage", ok |-> (r.kind = "ok"), prev |-> "none" ]
                /\ serve' = [ running |-> (o.outcome # "error"), outcome |-> o.outcome,
                              op |-> o.op, cause |-> o.cause ]
                /\ prev_tx_hash' = IF o.outcome = "submitted" THEN o.tx ELSE prev_tx_hash
                /\ tx_status' = IF o.outcome = "submitted" THEN "Pending" ELSE tx_status
                /\ sent' = IF o.outcome = "submitted" THEN Append(sent, Unwrap(o.tx)) ELSE sent
    /\ sync_result' = NoSync
    /\ rpc_result' = NoRpc
    /\ UNCHANGED << btc_variant, btc_tip, spv_instance, cached_spv_instance, now, call >>

ServeLoop == ServeLoopWith(SyncRemotes, CkbRemotes, MaxSent)

CkbUnchanged ==
    /\ serve' = [ NoIteration EXCEPT !.running = serve.running ]
    /\ sync_result' = NoSync
    /\ rpc_result' = NoRpc
    /\ UNCHANGED << storage, btc_variant, btc_tip, cached_spv_instance, now, last_op,
                    prev_tx_hash, sent, call >>

\* the CKB node: the pending transaction is proposed
CkbPropose ==
    /\ tx_status = "Pending"
    /\ tx_status' = "Proposed"
    /\ UNCHANGED spv_instance
    /\ CkbUnchanged

\* the CKB node: the proposed transaction is committed, its cells replace
\* the cells it consumed
CkbCommit ==
    /\ tx_status = "Proposed"
    /\ tx_status' = "Committed"
    /\ \E tx \in { Unwrap(prev_tx_hash) } :
           spv_instance' = Some(ServeCells(Unwrap(spv_instance), tx, [ ok |-> TRUE, spv_client |-> tx.spv_client ]))
    /\ CkbUnchanged

\* the CKB node: the transaction leaves the pool without being committed
CkbDrop ==
    /\ tx_in_pool(tx_status)
    /\ tx_status' \in { "Unknown", "Rejected" }
    /\ UNCHANGED spv_instance
    /\ CkbUnchanged

NextServe ==
    \/ InitService
    \/ BtcExtendUpTo(MaxServeHeight)
    \/ BtcReorgUpTo(MaxServeHeight)
    \/ ServeLoop
    \/ CkbPropose
    \/ CkbCommit
    \/ CkbDrop

SpecServe == Init /\ [][NextServe]_vars

(***************************************************************************)
(* The proof API: SpvRpcImpl and getTxProof.                               *)
(***************************************************************************)
StorageTxTooNew == 23101
StorageTxUnconfirmed == 23102
StorageHeaderMissing == 23301
StorageHeaderUnmatched == 23302
OnchainTxUnconfirmed == 25101
OnchainReorgRequired == 25901

SPV_INSTANCE_CACHED_SECS == 600

\* variant: the cached instance is served whatever its age
load_cache_spv_instance_unexpiring(cache, current_timestamp) ==
    IF IsSome(cache) THEN Some(Unwrap(cache).instance) ELSE None

load_cache_spv_instance(cache, current_timestamp) ==
    IF IsSome(cache)
    THEN IF current_timestamp > Unwrap(cache).expired_timestamp
         THEN None
         ELSE Some(Unwrap(cache).instance)
    ELSE None

\* Ok(Some(instance)) or anything else (None)
load_spv_instance(cache, current_timestamp, stg_tip_height, target_confirmed_height) ==
    LET cached == load_cache_spv_instance(cache, current_timestamp)
    IN  IF ~IsSome(cached) THEN None
        ELSE LET best == find_best_spv_client_not_greater_than_height(Unwrap(cached),
                                                                      stg_tip_height)
             IN  IF ~best.ok THEN None
                 ELSE IF U32Lt(U32(best.cell.headers_mmr_root.max_height),
                               target_confirmed_height)
                      THEN None
                      ELSE cached

update_spv_instance(instance, current_timestamp) ==
    Some([ instance |-> instance,
           expired_timestamp |-> current_timestamp + SPV_INSTANCE_CACHED_SECS ])

NoCell == [ id |-> 0, tip_block_hash |-> 0, headers_mmr_root |-> new_leaf(0, 0),
            out_point |-> <<0, 0>> ]

\* the outcome of a call: kind is "ok", "api_error" (with code),
\* "internal_error" or "panic"; the other fields record what the handler
\* read and chose on the way (checked: it came to the storage-side checks)
RpcOut(kind, code, req, cache) ==
    [ kind |-> kind, code |-> code,
      req |-> [ target_height |-> req.target_height, confirmations |-> req.confirmations ],
      cache |-> cache, checked |-> TRUE,
      stg_tip_height |-> 0, strategy |-> 0, best |-> NoCell,
      client |-> NoCell, spv_client |-> <<0, 0>>, header_proof |-> <<>> ]

\* strategy 2 and the proof; o carries the instance and the strategy-1 client
get_tx_proof_strategy2(stg, ins, req, target_confirmed, o) ==
    LET count == clients_len(ins) \div 5
        found == find_spv_client_before_tip(ins, count)
    IN  IF ~found.ok THEN [ o EXCEPT !.kind = "internal_error", !.strategy = 2 ]
        ELSE LET cell            == found.cell
                 spv_best_height == cell.headers_mmr_root.max_height
                 o2              == [ o EXCEPT !.strategy = 2, !.client = cell ]
             IN  IF U32Lt(U32(spv_best_height), target_confirmed)
                 THEN [ o2 EXCEPT !.kind = "api_error", !.code = OnchainTxUnconfirmed ]
                 ELSE LET stg_root == generate_headers_root(stg, spv_best_height)
                      IN  IF ~stg_root.ok THEN [ o2 EXCEPT !.kind = "internal_error" ]
                          ELSE IF Unwrap(stg_root.root) # cell.headers_mmr_root
                               THEN [ o2 EXCEPT !.kind = "api_error",
                                                !.code = OnchainReorgRequired ]
                               ELSE [ o2 EXCEPT !.kind = "ok" ]

\* the response with the header proof pr
get_tx_proof_response(o, pr) ==
    IF ~pr.ok THEN [ o EXCEPT !.kind = "internal_error" ]
    ELSE [ o EXCEPT !.spv_client = o.client.out_point, !.header_proof = pr.proof ]

get_tx_proof_build(stg, req, o) ==
    IF o.kind # "ok" THEN o
    ELSE get_tx_proof_response(
             o, generate_headers_proof(stg, o.client.headers_mmr_root.max_height,
                                       <<req.target_height>>))

\* strategy 1 with the best client and the local root at its height
get_tx_proof_strategy1(stg, ins, req, target_confirmed, best, o1, stg_root) ==
    IF ~stg_root.ok THEN o1
    ELSE get_tx_proof_build(stg, req,
             IF Unwrap(stg_root.root) # best.cell.headers_mmr_root
             THEN get_tx_proof_strategy2(stg, ins, req, target_confirmed, o1)
             ELSE [ o1 EXCEPT !.kind = "ok" ])

\* the client selection on the instance ins; o0 is the response so far
get_tx_proof_select(stg, ins, req, target_confirmed, best, o0) ==
    IF ~best.ok THEN o0
    ELSE IF U32Lt(U32(best.cell.headers_mmr_root.max_height), target_confirmed)
    THEN [ o0 EXCEPT !.best = best.cell, !.client = best.cell,
                     !.kind = "api_error", !.code = OnchainTxUnconfirmed ]
    ELSE get_tx_proof_strategy1(
             stg, ins, req, target_confirmed, best,
             [ o0 EXCEPT !.best = best.cell, !.client = best.cell ],
             generate_headers_root(stg, best.cell.headers_mmr_root.max_height))

\* the instance is the cached one (loaded) or the one read from the chain,
\* which then replaces the cache
get_tx_proof_instance(stg, onchain, cache, current_timestamp, req, stg_tip_height, target_confirmed, loaded) ==
    IF ~IsSome(loaded) /\ req.remote = "ckb_fail"
    THEN [ RpcOut("internal_error", 0, req, cache) EXCEPT !.stg_tip_height = stg_tip_height ]
    ELSE LET ins    == IF IsSome(loaded) THEN Unwrap(loaded) ELSE onchain
             cache2 == IF IsSome(loaded) THEN cache
                       ELSE update_spv_instance(onchain, current_timestamp)
         IN  get_tx_proof_select(
                 stg, ins, req, target_confirmed,
                 find_best_spv_client_not_greater_than_height(ins, stg_tip_height),
                 [ RpcOut("internal_error", 0, req, cache2)
                       EXCEPT !.stg_tip_height = stg_tip_height, !.strategy = 1 ])

\* the storage-side checks, from the tip state ts of the storage
get_tx_proof_checks(stg, onchain, cache, current_timestamp, req, ts) ==
    IF req.remote = "btc_fail" \/ ~ts.ok
    THEN [ RpcOut("internal_error", 0, req, cache) EXCEPT !.checked = FALSE ]
    ELSE
    LET stg_tip_height   == ts.height
        target_height    == req.target_height
        target_confirmed == wrapping_add(U32(target_height), req.confirmations)
        stg_target_hash  == bitcoin_header_hash(stg, target_height)
        e(code) == [ RpcOut("api_error", code, req, cache)
                         EXCEPT !.stg_tip_height = stg_tip_height ]
    IN
    IF stg_tip_height < target_height THEN e(StorageTxTooNew)
    ELSE IF req.overflow_checks /\ add_overflows(U32(target_height), req.confirmations)
    THEN [ RpcOut("panic", 0, req, cache) EXCEPT !.stg_tip_height = stg_tip_height ]
    ELSE IF U32Lt(U32(stg_tip_height), target_confirmed) THEN e(StorageTxUnconfirmed)
    ELSE IF ~stg_target_hash.ok THEN e(StorageHeaderMissing)
    ELSE IF req.target_hash # stg_target_hash.hash THEN e(StorageHeaderUnmatched)
    ELSE get_tx_proof_instance(
             stg, onchain, cache, current_timestamp, req, stg_tip_height, target_confirmed,
             load_spv_instance(cache, current_timestamp, stg_tip_height, target_confirmed))

\* req: target_height and target_hash (block of the transaction as the
\* Bitcoin source reports it), confirmations, remote ("ok", "btc_fail",
\* "ckb_fail") and overflow_checks (whether the build traps on overflow)
get_tx_proof(stg, onchain, cache, current_timestamp, req) ==
    get_tx_proof_checks(stg, onchain, cache, current_timestamp, req, tip_state(stg))

(***************************************************************************)
(* The service: storage reconciliation, the serve loop's transactions, the *)
(* clock and getTxProof requests.                                          *)
(***************************************************************************)
\* greatest height of the Bitcoin source while the service runs
MaxServedHeight == 3
\* seconds the clock advances in one step, and the number of steps
TickSecs == 700
MaxTicks == 1
\* greatest small `confirmations` a request carries; requests also carry
\* the values 2^32 - k for k in 1 .. MaxConfirmations + 1
MaxConfirmations == 1

ConfirmationsInputs ==
    { U32(c) : c \in 0..MaxConfirmations } \cup
    { U32FromTop(k) : k \in 1..(MaxConfirmations + 1) }

Tick ==
    /\ now < MaxTicks * TickSecs
    /\ now' = now + TickSecs
    /\ rpc_result' = NoRpc
    /\ sync_result' = NoSync
    /\ LoopUnchanged /\ UNCHANGED << storage, btc_variant, btc_tip, spv_instance, cached_spv_instance,
                    last_op >>

\* A request arrives and the handler runs to its response.
GetTxProof ==
    /\ is_initialized(storage)
    /\ IsSome(spv_instance)
    /\ \E target_height \in 0..btc_tip, confirmations \in ConfirmationsInputs,
          remote \in { "ok", "btc_fail", "ckb_fail" }, overflow_checks \in BOOLEAN :
        \E r \in { get_tx_proof(storage, Unwrap(spv_instance), cached_spv_instance, now,
                                 [ target_height   |-> target_height,
                                   target_hash     |-> BlockHashOf(target_height, btc_variant),
                                   confirmations   |-> confirmations,
                                   remote          |-> remote,
                                   overflow_checks |-> overflow_checks ]) } :
            /\ rpc_result' = [ r EXCEPT !.cache = None ]
            /\ cached_spv_instance' = r.cache
    /\ sync_result' = NoSync
    /\ LoopUnchanged /\ UNCHANGED << storage, btc_variant, btc_tip, spv_instance, now, last_op >>

\* The response reaches the caller.
RpcRespond ==
    /\ rpc_result # NoRpc
    /\ rpc_result' = NoRpc
    /\ LoopUnchanged /\ UNCHANGED << storage, btc_variant, btc_tip, spv_instance, cached_spv_instance,
                    now, last_op, sync_result >>

\* no request in flight
Idle == rpc_result = NoRpc

Next ==
    \/ Idle /\ InitService
    \/ Idle /\ BtcExtendUpTo(MaxServedHeight)
    \/ Idle /\ BtcReorgUpTo(MaxServedHeight)
    \/ Idle /\ ServeIteration
    \/ Idle /\ Tick
    \/ Idle /\ GetTxProof
    \/ RpcRespond

Spec == Init /\ [][Next]_vars

(***************************************************************************)
(* Properties of getTxProof, stated on the request and the response in     *)
(* flight.  Storage, the source and the ring are those the handler read.   *)
(***************************************************************************)
\* x < target_height + confirmations, the sum taken in the integers
BelowSum(x, target_height, confirmations) ==
    confirmations.hi > 0 \/ x < target_height + confirmations.lo

\* the handler got the transaction's block from the Bitcoin source and the
\* storage tip, and went on to the storage-side checks
ChecksReached ==
    /\ rpc_result # NoRpc
    /\ rpc_result.checked

LocalRootEquals(cell) ==
    \E stg_root \in { generate_headers_root(storage, cell.headers_mmr_root.max_height) } :
        stg_root.ok /\ Unwrap(stg_root.root) = cell.headers_mmr_root

\* C8 as stated: a successful response names the out-point of a client C
\* with C.max_height >= target_height + confirmations, whose on-chain root
\* equals the local root at C.max_height; the storage header at
\* target_height is the block the source reported; the header proof is the
\* inclusion proof of target_height against height C.max_height.
Orig_C8_SuccessConditions ==
    (rpc_result # NoRpc /\ rpc_result.kind = "ok") =>
        LET C     == rpc_result.client
            req   == rpc_result.req
            hash  == bitcoin_header_hash(storage, req.target_height)
            proof == generate_headers_proof(storage, C.headers_mmr_root.max_height,
                                            <<req.target_height>>)
        IN  /\ rpc_result.spv_client = C.out_point
            /\ ~BelowSum(C.headers_mmr_root.max_height, req.target_height, req.confirmations)
            /\ LocalRootEquals(C)
            /\ hash.ok /\ hash.hash = BlockHashOf(req.target_height, btc_variant)
            /\ proof.ok /\ rpc_result.header_proof = proof.proof

\* C9 as stated: the storage-side checks run in the order 23101, 23102,
\* 23301, 23302, the first failing one gives the code, no code is returned
\* when its condition is false, and 25101 / 25901 are returned only after
\* all four passed.
Orig_C9_StorageChecksOrder ==
    ChecksReached =>
        LET req       == rpc_result.req
            code      == IF rpc_result.kind = "api_error" THEN rpc_result.code ELSE 0
            hash      == bitcoin_header_hash(storage, req.target_height)
            too_new   == tip < req.target_height
            unconf    == BelowSum(tip, req.target_height, req.confirmations)
            missing   == ~hash.ok
            unmatched == hash.ok /\ hash.hash # BlockHashOf(req.target_height, btc_variant)
        IN  /\ too_new => code = StorageTxTooNew
            /\ (~too_new /\ unconf) => code = StorageTxUnconfirmed
            /\ (~too_new /\ ~unconf /\ missing) => code = StorageHeaderMissing
            /\ (~too_new /\ ~unconf /\ ~missing /\ unmatched) => code = StorageHeaderUnmatched
            /\ code = StorageTxTooNew => too_new
            /\ code = StorageTxUnconfirmed => unconf
            /\ code = StorageHeaderMissing => missing
            /\ code = StorageHeaderUnmatched => unmatched
            /\ code \in { OnchainTxUnconfirmed, OnchainReorgRequired } =>
                   ~too_new /\ ~unconf /\ ~missing /\ ~unmatched

\* C10 as stated: strategy 2 is tried only after the strategy-1 client passed
\* the height check and failed the root comparison; 25901 is returned only
\* if the strategy-2 client's root differs from the local root as well; and
\* 25101 is returned when the client under consideration, in either
\* strategy, has max_height < target_height + confirmations.
Orig_C10_StrategyOrder ==
    (rpc_result # NoRpc /\ rpc_result.strategy >= 1 /\ rpc_result.best # NoCell) =>
        LET req   == rpc_result.req
            code  == IF rpc_result.kind = "api_error" THEN rpc_result.code ELSE 0
            best  == rpc_result.best
            C     == rpc_result.client
            low(cell) == BelowSum(cell.headers_mmr_root.max_height, req.target_height,
                                  req.confirmations)
        IN  /\ rpc_result.strategy = 2 => ~low(best) /\ ~LocalRootEquals(best)
            /\ code = OnchainReorgRequired =>
                   rpc_result.strategy = 2 /\ ~LocalRootEquals(C)
            /\ low(best) => code = OnchainTxUnconfirmed
            /\ (rpc_result.strategy = 2 /\ rpc_result.kind # "internal_error" /\ low(C))
                   => code = OnchainTxUnconfirmed

(***************************************************************************)
(* Initialization of the header store.                                     *)
(***************************************************************************)
\* C20: initialize_with succeeds on an empty storage and leaves base = tip =
\* height, the header stored at that height and an MMR of exactly one leaf,
\* the digest of that header; on a storage whose base is set it fails and
\* changes nothing.
Thm_C20_InitializeOnce ==
    [][ last_op'.op = "initialize_with" =>
          IF IsSome(storage.base_bitcoin_height)
          THEN ~last_op'.ok /\ storage' = storage
          ELSE /\ last_op'.ok
               /\ storage'.base_bitcoin_height = Some(BaseHeight)
               /\ storage'.tip_bitcoin_height = Some(BaseHeight)
               /\ DOMAIN storage'.headers = { BaseHeight }
               /\ storage'.headers[BaseHeight] \in AllHeaders
               /\ storage'.header_mmr =
                      (0 :> new_leaf(BaseHeight, block_hash(storage'.headers[BaseHeight]))) ]_vars

\* initialize_with was refused on a storage that holds appended headers
Wit_C20_RefusedOnAppended ==
    /\ last_op.op = "initialize_with" /\ ~last_op.ok
    /\ last_op.prev = "append_headers"
    /\ is_initialized(storage) /\ tip > base

(***************************************************************************)
(* The update generated from the storage for an on-chain height.           *)
(***************************************************************************)
\* the limits of an update: small ones and 2^32 - 1, the limit of a Reorg on
\* a chain other than testnet
UpdateLimits == { U32(l) : l \in 1..UpdateLimit } \cup { U32FromTop(1) }

\* min(t, p + limit) over the integers
MinTip(t, p, limit) == IF limit.hi = 0 /\ p + limit.lo < t THEN p + limit.lo ELSE t

\* what the update g generated for on-chain height p and limit `limit` has to be
UpdateCoversRange(g, p, limit) ==
    IF tip <= p THEN ~g.ok
    ELSE /\ g.ok
         /\ Len(g.headers) = MinTip(tip, p, limit) - p
         /\ Len(g.headers) >= 1
         /\ limit.hi = 0 => Len(g.headers) <= limit.lo
         /\ \A i \in 1..Len(g.headers) :
                /\ p + i \in DOMAIN storage.headers
                /\ g.headers[i] = storage.headers[p + i]
         /\ g.spv_client.tip_block_hash = block_hash(g.headers[Len(g.headers)])
         /\ Some(g.spv_client.headers_mmr_root) = RootAt(storage, MinTip(tip, p, limit)).root

\* C15: for on-chain height p, storage tip t and limit L the update fails
\* when t <= p; otherwise its headers are the stored headers of
\* p+1 ..= min(t, p+L) in ascending order, the new client's tip_block_hash is
\* the hash of the last of them and its headers_mmr_root is the storage MMR
\* root at min(t, p+L).
Orig_C15_UpdateCoversRange ==
    is_initialized(storage) =>
        \A p \in base..MaxHeight, limit \in UpdateLimits, overflow_checks \in BOOLEAN :
            \A g \in { generate_spv_client_and_spv_update(storage, p, limit, overflow_checks) } :
                UpdateCoversRange(g, p, limit)

\* C15 for the limits whose sum with p fits in 32 bits
Aux_C15_SmallLimits ==
    is_initialized(storage) =>
        \A p \in base..MaxHeight, l \in 1..UpdateLimit, overflow_checks \in BOOLEAN :
            \A g \in { generate_spv_client_and_spv_update(storage, p, U32(l), overflow_checks) } :
                UpdateCoversRange(g, p, U32(l))

(***************************************************************************)
(* Properties of the decision of the serve loop.                           *)
(***************************************************************************)
\* the on-chain tip client
TipClient(ins) == ins.clients[ins.tip_client_id]

\* the decision sel for the ring ins, given the storage root at the height of
\* the tip client
DecisionFollowsRoot(ins, root, sel) ==
    /\ ~root.ok => ~sel.ok
    /\ (root.ok /\ Unwrap(root.root) = TipClient(ins).headers_mmr_root) =>
           /\ sel.ok /\ sel.op = "Update"
           /\ sel.input.curr = TipClient(ins)
    /\ (root.ok /\ Unwrap(root.root) # TipClient(ins).headers_mmr_root) =>
           \/ sel.ok /\ sel.op = "Reorg"
           \/ ~sel.ok /\ ~prepare_reorg_input(storage, ins).ok

\* C11: select_operation takes the Update path exactly when the MMR root of
\* the on-chain tip client equals the root the storage generates at that
\* client's max_height, and the Reorg path otherwise.
Thm_C11_UpdateIffRootsEqual ==
    (is_initialized(storage) /\ IsSome(spv_instance)) =>
        \A ins \in { Unwrap(spv_instance) } :
            \A root \in { RootAt(storage, TipClient(ins).headers_mmr_root.max_height) },
               sel \in { select_operation(storage, ins) } :
                DecisionFollowsRoot(ins, root, sel)

\* the storage follows another branch than the tip client: Reorg is selected
Wit_C11_ReorgSelected ==
    /\ is_initialized(storage) /\ IsSome(spv_instance)
    /\ \E sel \in { select_operation(storage, Unwrap(spv_instance)) } :
           sel.ok /\ sel.op = "Reorg"

\* the client i steps behind the tip client in the ring
ClientBehindTip(ins, i) ==
    ins.clients[(ins.tip_client_id + clients_len(ins) - i) % clients_len(ins)]

\* the client's root is the root the storage has at the client's max_height
RootMatches(stg, cell) ==
    RootAt(stg, cell.headers_mmr_root.max_height) =
        [ ok |-> TRUE, root |-> Some(cell.headers_mmr_root) ]

\* input is the walk from the tip client back to the first matching client
ReorgInputIsWalk(ins, input) ==
    /\ Len(input.stale) < clients_len(ins)
    /\ \A i \in 1..Len(input.stale) :
           /\ input.stale[i] = ClientBehindTip(ins, i - 1)
           /\ ~RootMatches(storage, input.stale[i])
           /\ input.stale[i].id # input.curr.id
    /\ input.curr = ClientBehindTip(ins, Len(input.stale))
    /\ RootMatches(storage, input.curr)

\* C12: the Reorg input is the walk backwards from the tip client: curr is
\* the first client whose root equals the storage root at its max_height,
\* stale holds exactly the clients visited before it, the tip client first,
\* with consecutive ids modulo clients_count, and curr is not among them.
Thm_C12_StaleIsWalkFromTip ==
    (is_initialized(storage) /\ IsSome(spv_instance)) =>
        \A ins \in { Unwrap(spv_instance) } :
            \A input \in { prepare_reorg_input(storage, ins) } :
                input.ok => ReorgInputIsWalk(ins, input)

\* a Reorg whose walk passes from client 0 to the last client of the ring
Wit_C12_WalkWrapsAround ==
    /\ is_initialized(storage) /\ IsSome(spv_instance)
    /\ \E sel \in { select_operation(storage, Unwrap(spv_instance)) } :
           /\ sel.ok /\ sel.op = "Reorg"
           /\ Len(sel.input.stale) >= 2
           /\ sel.input.stale[1].id = 0
           /\ sel.input.stale[2].id = ClientsCount - 1

\* C13: every Reorg input handed to the transaction assembler holds at
\* least two stale clients.
Orig_C13_AtLeastTwoStale ==
    \A i \in 1..Len(sent) :
        sent[i].op = "Reorg" => Len(sent[i].input.stale) >= 2

\* every client of the ring has a root the storage does not have at the
\* client's max_height
AllClientsStale(stg, ins) ==
    \A id \in DOMAIN ins.clients :
        /\ RootAt(stg, ins.clients[id].headers_mmr_root.max_height).ok
        /\ ~RootMatches(stg, ins.clients[id])

\* C14: when every client of the ring disagrees with the storage, the
\* decision is a Reset, an input of the shape of a Reorg that covers the
\* entire ring.
Orig_C14_ResetWhenAllStale ==
    (is_initialized(storage) /\ IsSome(spv_instance)) =>
        \A ins \in { Unwrap(spv_instance) } :
            AllClientsStale(storage, ins) =>
                \E sel \in { select_operation(storage, ins) } :
                    /\ sel.ok
                    /\ sel.op = "Reset"
                    /\ Len(sel.input.stale) = clients_len(ins)

(***************************************************************************)
(* Properties of the serve loop.                                           *)
(***************************************************************************)
\* the step is an iteration of the serve loop
IsIteration == serve'.outcome # "none"

\* the iteration sent nothing and the loop goes on
NothingSent ==
    /\ serve'.running
    /\ sent' = sent
    /\ prev_tx_hash' = prev_tx_hash
    /\ tx_status' = tx_status
    /\ spv_instance' = spv_instance

\* C16: on the Update path, when the storage tip is not above the max_height
\* of the on-chain tip client, the iteration builds and sends no transaction
\* and the loop goes on with its next iteration after the sleep.
Thm_C16_NoUpdateAtTip ==
    [][ (/\ IsIteration
         /\ serve'.op = "Update"
         /\ Unwrap(storage'.tip_bitcoin_height)
                <= TipClient(Unwrap(spv_instance)).headers_mmr_root.max_height)
        => (serve'.outcome = "no_update" /\ NothingSent) ]_vars

\* an iteration found the ring, updated before, level with the storage
Wit_C16_RingLevelWithStorage ==
    /\ serve.outcome = "no_update"
    /\ Len(sent) >= 1
    /\ tx_status = "Committed"
    /\ tip = TipClient(Unwrap(spv_instance)).headers_mmr_root.max_height
    /\ tip > base

\* C17: while the transaction sent last is Pending or Proposed the loop
\* sends no new transaction, and an iteration that gets the status waits; a
\* transaction is sent only in an iteration that has no transaction on
\* record or saw the recorded one as Committed, Unknown or Rejected.
Thm_C17_WaitsWhileInPool ==
    [][ /\ sent' # sent =>
               \/ prev_tx_hash = None
               \/ tx_status \in { "Committed", "Unknown", "Rejected" }
        /\ (IsIteration /\ IsSome(prev_tx_hash) /\ tx_status \in { "Pending", "Proposed" }) =>
               /\ sent' = sent
               /\ prev_tx_hash' = prev_tx_hash
               /\ serve'.outcome \in { "waiting", "not_caught_up", "error" }
               /\ serve'.outcome = "waiting" => serve'.running ]_vars

\* an iteration waited on a proposed transaction although the storage tip is
\* above the height that transaction brings on chain
Wit_C17_WaitedOnProposed ==
    /\ serve.outcome = "waiting"
    /\ tx_status = "Proposed"
    /\ IsSome(prev_tx_hash)
    /\ tip > Unwrap(prev_tx_hash).spv_client.headers_mmr_root.max_height

\* C18: the same transaction is never sent twice.
Orig_C18_NeverSentTwice ==
    \A i, j \in 1..Len(sent) : i # j => sent[i] # sent[j]

\* the calls of an iteration that go to the Bitcoin source or to the CKB node
RemoteCalls ==
    { "get_tip_height", "get_transaction_status", "find_spv_cells", "send_transaction" }

\* C19: when a call to the Bitcoin source or to the CKB node fails inside an
\* iteration (sync_storage, the status query, select_operation, the
\* submission), the loop does not end: it goes on with another iteration.
Orig_C19_LoopSurvivesFailure ==
    (serve.outcome = "error" /\ serve.cause \in RemoteCalls) => serve.running

(***************************************************************************)
(* Failures of append_headers.                                             *)
(***************************************************************************)
\* some header of the batch does not name the hash of its predecessor, the
\* stored tip header for the first one
Discontinuous(stg, headers) ==
    \E i \in 1..Len(headers) :
        headers[i].prev_blockhash #
            (IF i = 1 THEN block_hash(stg.headers[Unwrap(stg.tip_bitcoin_height)])
                      ELSE block_hash(headers[i - 1]))

\* the result r of an append left tip, headers of [base, tip] and the MMR
\* root at tip as they are in the storage
AppendChangedNothing(r) ==
    /\ ~r.ok
    /\ r.storage.tip_bitcoin_height = storage.tip_bitcoin_height
    /\ r.storage.base_bitcoin_height = storage.base_bitcoin_height
    /\ \A h \in base..tip :
           /\ h \in DOMAIN r.storage.headers
           /\ r.storage.headers[h] = storage.headers[h]
    /\ RootAt(r.storage, tip) = RootAt(storage, tip)
    /\ RootAt(storage, tip).ok

\* C21: append_headers fails on an empty input and on every input with a
\* header whose prev_blockhash is not the hash of its predecessor; after the
\* failure the tip height, the headers of [base, tip] and the MMR root at tip
\* are unchanged, also when earlier headers of the batch were valid.  Every
\* other input is appended.
Thm_C21_FailedAppendKeepsChain ==
    is_initialized(storage) =>
        \A headers \in Batches :
            \A r \in { append_headers(storage, headers) } :
                IF headers = <<>> \/ Discontinuous(storage, headers)
                THEN AppendChangedNothing(r)
                ELSE r.ok /\ r.storage.tip_bitcoin_height = Some(tip + Len(headers))

\* an append failed at a later header of its batch: the first header of the
\* batch is stored above the tip and continues it, the MMR store ends at the
\* tip
Wit_C21_BatchRefusedAfterValidHeader ==
    /\ is_initialized(storage)
    /\ last_op.op = "append_headers" /\ ~last_op.ok
    /\ tip > base
    /\ (tip + 1) \in DOMAIN storage.headers
    /\ storage.headers[tip + 1].prev_blockhash = block_hash(storage.headers[tip])
    /\ Cardinality(DOMAIN storage.header_mmr) = leaf_index_to_mmr_size(tip - base)

(***************************************************************************)
(* sync_storage without a common block.                                    *)
(***************************************************************************)
\* the storage is behind the source, its tip is not on the source chain and
\* no height of [base, tip - 1] has the same hash in storage and source
NoCommonBlock(stg, v, t) ==
    /\ Unwrap(stg.tip_bitcoin_height) < t
    /\ \A h \in Unwrap(stg.base_bitcoin_height)..Unwrap(stg.tip_bitcoin_height) :
           block_hash(stg.headers[h]) # BlockHashOf(h, v)

MinClientsCount == 3
\* clients_count is a u8
MaxClientsCount == 255

RingSizes == MinClientsCount..MaxClientsCount

NextTipClientId ==
    /\ call.op = "none"
    /\ \E clients_count \in RingSizes :
           \E tip_client_id \in 0..(clients_count - 1) :
               call' = [ op |-> "next_tip_client_id",
                         clients_count |-> clients_count,
                         tip_client_id |-> tip_client_id,
                         id |-> next_tip_client_id(tip_client_id, clients_count) ]
    /\ UNCHANGED << storage, btc_variant, btc_tip, spv_instance, cached_spv_instance,
                    now, last_op, sync_result, rpc_result, prev_tx_hash, tx_status,
                    sent, serve >>

PrevTipClientId ==
    /\ call.op = "none"
    /\ \E clients_count \in RingSizes :
           \E tip_client_id \in 0..(clients_count - 1) :
               call' = [ op |-> "prev_tip_client_id",
                         clients_count |-> clients_count,
                         tip_client_id |-> tip_client_id,
                         id |-> prev_tip_client_id(tip_client_id, clients_count) ]
    /\ UNCHANGED << storage, btc_variant, btc_tip, spv_instance, cached_spv_instance,
                    now, last_op, sync_result, rpc_result, prev_tx_hash, tx_status,
                    sent, serve >>

NextIds == NextTipClientId \/ PrevTipClientId

SpecIds == Init /\ [][NextIds]_vars

\* C23: for every clients_count in 3..255 and every tip_client_id below it,
\* next_tip_client_id is (tip + 1) mod clients_count and prev_tip_client_id is
\* (tip - 1) mod clients_count, both below clients_count; each undoes the
\* other, and neither the addition nor a subtraction leaves the range of a u8.
Thm_C23_IdsStepModuloRing ==
    /\ call.op = "next_tip_client_id" =>
           /\ call.id = (call.tip_client_id + 1) % call.clients_count
           /\ call.id < call.clients_count
           /\ prev_tip_client_id(call.id, call.clients_count) = call.tip_client_id
           /\ call.tip_client_id + 1 < U8Size
    /\ call.op = "prev_tip_client_id" =>
           /\ call.id = (call.tip_client_id - 1) % call.clients_count
           /\ call.id < call.clients_count
           /\ next_tip_client_id(call.id, call.clients_count) = call.tip_client_id
           /\ call.clients_count - 1 >= 0
           /\ call.tip_client_id = 0 \/ call.tip_client_id - 1 >= 0

Wit_C23_WrapsAtLargestRing ==
    /\ call.op = "next_tip_client_id"
    /\ call.clients_count = MaxClientsCount
    /\ call.tip_client_id = MaxClientsCount - 1
    /\ call.id = 0

(***************************************************************************)
(* The ring under a larger spv_headers_update_limit: a Reorg may lift the  *)
(* rewritten clients several heights above the fork point.                 *)
(***************************************************************************)
BestUpdateLimit == 5
MaxBestTx == 4
MaxBestHeight == 6

NextBest ==
    \/ InitService
    \/ BtcExtendUpTo(MaxBestHeight)
    \/ BtcReorgUpTo(MaxBestHeight)
    \/ ServeIterationWith({ "ok" }, MaxBestTx, BestUpdateLimit)

SpecBest == Init /\ [][NextBest]_vars

MaxHeightOf(ins, id) == ins.clients[id].headers_mmr_root.max_height

\* the result for height h is the nearest client at or below h
BestIsNearest(ins, h, r) ==
    IF r.ok
    THEN /\ r.cell.headers_mmr_root.max_height <= h
         /\ \A id \in DOMAIN ins.clients :
                ~(/\ r.cell.headers_mmr_root.max_height < MaxHeightOf(ins, id)
                  /\ MaxHeightOf(ins, id) < h)
    ELSE \A id \in DOMAIN ins.clients : MaxHeightOf(ins, id) > h

\* C24: in every ring reached by Update and Reorg transactions and for every
\* height h, find_best_spv_client_not_greater_than_height(h) returns a client
\* with max_height <= h such that no client of the ring has a max_height
\* strictly between the returned one and h, and it fails exactly when every
\* client has max_height > h.
Orig_C24_BestClientIsNearest ==
    IsSome(spv_instance) =>
        \A h \in 0..MaxBestHeight :
            BestIsNearest(Unwrap(spv_instance), h,
                          find_best_spv_client_not_greater_than_height(Unwrap(spv_instance), h))

\* the parts of C24 that do not compare the result with the other clients:
\* the call fails exactly when no client is at or below h, and a client it
\* returns is at or below h
Aux_C24_FirstMetOrNone ==
    IsSome(spv_instance) =>
        \A h \in 0..MaxBestHeight :
            \A r \in { find_best_spv_client_not_greater_than_height(Unwrap(spv_instance), h) } :
                /\ r.ok <=> \E id \in ClientIds : MaxHeightOf(Unwrap(spv_instance), id) <= h
                /\ r.ok => r.cell.headers_mmr_root.max_height <= h

(***************************************************************************)
(* find_spv_cells: the live cells the indexer returns for the SPV type     *)
(* script, counted against the clients_count of the script's args and      *)
(* parsed into an SpvInstance.                                             *)
(***************************************************************************)
\* clients_count in the args of the type script queried
CellsClientsCount == 3

\* what the data of a live cell parses as: a client with an id, the info
\* cell with a tip_client_id, or neither
CellData ==
    { [ kind |-> "client", id |-> id ] : id \in 0..(CellsClientsCount - 1) }
        \cup { [ kind |-> "info", id |-> 0 ], [ kind |-> "other", id |-> 0 ] }

\* the answers of the indexer: up to one cell more than the ring has
CellLists == UNION { [ 1..n -> CellData ] : n \in 0..(CellsClientsCount + 2) }

\* HashMap::insert
insert(map, key, value) ==
    [ k \in DOMAIN map \cup { key } |-> IF k = key THEN value ELSE map[k] ]

RECURSIVE ParseLoop(_, _, _, _, _)
ParseLoop(cells, i, spv_info_opt, spv_clients, clients_count) ==
    IF i > Len(cells)
    THEN IF IsSome(spv_info_opt)
         THEN [ ok |-> TRUE, info |-> Unwrap(spv_info_opt), clients |-> spv_clients ]
         ELSE [ ok |-> FALSE, error |-> "the SPV info cell is missing" ]
    ELSE IF cells[i].kind = "client"
         THEN ParseLoop(cells, i + 1, spv_info_opt,
                        insert(spv_clients, cells[i].id, [ id |-> cells[i].id, cell |-> i ]),
                        clients_count)
         ELSE IF cells[i].kind = "info"
              THEN IF IsSome(spv_info_opt)
                   THEN [ ok |-> FALSE, error |-> "the SPV info cell should be unique" ]
                   ELSE ParseLoop(cells, i + 1,
                                  Some([ tip_client_id |-> cells[i].id, cell |-> i,
                                         clients_count |-> clients_count ]),
                                  spv_clients, clients_count)
              ELSE [ ok |-> FALSE, error |-> "the data of the SPV cell is unexpected" ]

parse_raw_spv_cells(cells) ==
    ParseLoop(cells, 1, None, << >>, (Len(cells) - 1) % U8Size)

\* the cells of the indexer's answer, refused unless there are clients_count + 1
find_raw_spv_cells(cells, clients_count) ==
    IF Len(cells) = clients_count + 1
    THEN [ ok |-> TRUE, cells |-> cells ]
    ELSE [ ok |-> FALSE, error |-> "the count of SPV cells is incorrect" ]

find_spv_cells_parsed(raw) ==
    IF ~raw.ok THEN raw ELSE parse_raw_spv_cells(raw.cells)

find_spv_cells(cells, clients_count) ==
    find_spv_cells_parsed(find_raw_spv_cells(cells, clients_count))

FindSpvCells ==
    /\ call.op = "none"
    /\ \E cells \in CellLists :
           call' = [ op |-> "find_spv_cells",
                     clients_count |-> CellsClientsCount,
                     cells |-> cells,
                     result |-> find_spv_cells(cells, CellsClientsCount) ]
    /\ UNCHANGED << storage, btc_variant, btc_tip, spv_instance, cached_spv_instance,
                    now, last_op, sync_result, rpc_result, prev_tx_hash, tx_status,
                    sent, serve >>

NextCells == FindSpvCells

SpecCells == Init /\ [][NextCells]_vars

InfoCells(cells) == { i \in 1..Len(cells) : cells[i].kind = "info" }

\* C25: for every answer of the indexer, find_spv_cells fails or returns an
\* instance with one info cell and exactly clients_count client entries; a
\* cell count other than clients_count + 1, a second info cell and a missing
\* info cell are errors.
Orig_C25_InstanceHasAllClients ==
    call.op = "find_spv_cells" =>
        /\ call.result.ok =>
               /\ Cardinality(InfoCells(call.cells)) = 1
               /\ Cardinality(DOMAIN call.result.clients) = call.clients_count
        /\ Len(call.cells) # call.clients_count + 1 => ~call.result.ok
        /\ Cardinality(InfoCells(call.cells)) # 1 => ~call.result.ok

\* the errors of C25 taken alone: the count, the second info cell, the
\* missing info cell and unknown data are refused, and an instance returned
\* has one info cell and at most clients_count clients
Aux_C25_ErrorsRefused ==
    call.op = "find_spv_cells" =>
        /\ Len(call.cells) # call.clients_count + 1 => ~call.result.ok
        /\ Cardinality(InfoCells(call.cells)) # 1 => ~call.result.ok
        /\ (\E i \in 1..Len(call.cells) : call.cells[i].kind = "other") => ~call.result.ok
        /\ call.result.ok =>
               /\ call.result.info.clients_count = call.clients_count
               /\ Cardinality(DOMAIN call.result.clients) <= call.clients_count

(***************************************************************************)
(* The cache of the API service.                                           *)
(***************************************************************************)
\* the cache holds an instance that has not expired at the clock's time
CacheFresh ==
    IsSome(cached_spv_instance) /\ now <= Unwrap(cached_spv_instance).expired_timestamp

\* the step is a getTxProof call that went on to choose a client of an instance
ChoseClient == rpc_result' # NoRpc /\ rpc_result'.strategy >= 1

\* the response was computed on the instance read from the chain
AnsweredFromChain ==
    \A best \in { find_best_spv_client_not_greater_than_height(
                      Unwrap(spv_instance), rpc_result'.stg_tip_height) } :
        best.ok => rpc_result'.best = best.cell

\* C26: a cached instance answers getTxProof only while the clock is not past
\* its expiry, which is its insertion time plus 600 s (at the expiry itself
\* it is still served, one second later it is not); a call that finds no
\* cached instance or an expired one reads the ring from the chain, answers
\* from it and leaves it as the one cache entry, expiring 600 s from now.
Thm_C26_CacheServedUntilExpiry ==
    [][ /\ IsSome(cached_spv_instance) =>
               \A c \in { Unwrap(cached_spv_instance) } :
                   /\ c.expired_timestamp <= now + SPV_INSTANCE_CACHED_SECS
                   /\ load_cache_spv_instance(cached_spv_instance, c.expired_timestamp)
                          = Some(c.instance)
                   /\ load_cache_spv_instance(cached_spv_instance, c.expired_timestamp + 1)
                          = None
        /\ (ChoseClient /\ ~CacheFresh) =>
               /\ cached_spv_instance' =
                      Some([ instance |-> Unwrap(spv_instance),
                             expired_timestamp |-> now + SPV_INSTANCE_CACHED_SECS ])
               /\ AnsweredFromChain
        /\ (ChoseClient /\ cached_spv_instance' # cached_spv_instance) =>
               cached_spv_instance' =
                   Some([ instance |-> Unwrap(spv_instance),
                          expired_timestamp |-> now + SPV_INSTANCE_CACHED_SECS ])
      ]_vars

\* a call after the clock advanced wrote an entry into the cache
Wit_C26_RefetchedAfterExpiry ==
    /\ rpc_result # NoRpc
    /\ rpc_result.strategy >= 1
    /\ now > SPV_INSTANCE_CACHED_SECS
    /\ IsSome(cached_spv_instance)
    /\ Unwrap(cached_spv_instance).expired_timestamp = now + SPV_INSTANCE_CACHED_SECS
    /\ Unwrap(cached_spv_instance).instance.tx_count > 1

(***************************************************************************)
(* getTxProof beside the serve loop.  The handler reads the storage five   *)
(* times (tip_state, bitcoin_header_hash, generate_headers_root for each   *)
(* strategy, generate_headers_proof) and holds no lock in between; an      *)
(* iteration of the loop may run between any two of the reads.             *)
(***************************************************************************)
MaxConcHeight == 4
MaxConcTx == 1
MaxConcConfirmations == 1

NewHandler(target_height, confirmations) ==
    [ op |-> "get_tx_proof", pc |-> "tip", kind |-> "none", code |-> 0,
      target_height |-> target_height,
      target_hash |-> BlockHashOf(target_height, btc_variant),
      target_confirmed |-> wrapping_add(U32(target_height), U32(confirmations)),
      stg_tip_height |-> 0, ins |-> None, client |-> NoCell, header_proof |-> <<>> ]

HandlerDone(c, kind, code) == [ c EXCEPT !.pc = "done", !.kind = kind, !.code = code ]

HandlerUnchanged ==
    UNCHANGED << storage, btc_variant, btc_tip, spv_instance, now, last_op, sync_result,
                 rpc_result, prev_tx_hash, tx_status, sent, serve >>

\* the checks on the storage tip
handler_tip(c, ts) ==
    IF ~ts.ok THEN HandlerDone(c, "internal_error", 0)
    ELSE IF ts.height < c.target_height THEN HandlerDone(c, "api_error", StorageTxTooNew)
    ELSE IF U32Lt(U32(ts.height), c.target_confirmed)
         THEN HandlerDone(c, "api_error", StorageTxUnconfirmed)
         ELSE [ c EXCEPT !.pc = "hash", !.stg_tip_height = ts.height ]

\* the first strategy's client on the instance ins
handler_best(c, ins, best) ==
    IF ~best.ok THEN HandlerDone(c, "internal_error", 0)
    ELSE IF U32Lt(U32(best.cell.headers_mmr_root.max_height), c.target_confirmed)
         THEN HandlerDone(c, "api_error", OnchainTxUnconfirmed)
         ELSE [ c EXCEPT !.pc = "root1", !.ins = Some(ins), !.client = best.cell ]

\* the second strategy's client
handler_before_tip(c, found) ==
    IF ~found.ok THEN HandlerDone(c, "internal_error", 0)
    ELSE IF U32Lt(U32(found.cell.headers_mmr_root.max_height), c.target_confirmed)
         THEN HandlerDone(c, "api_error", OnchainTxUnconfirmed)
         ELSE [ c EXCEPT !.pc = "root2", !.client = found.cell ]

handler_root1(c, stg_root) ==
    IF ~stg_root.ok THEN HandlerDone(c, "internal_error", 0)
    ELSE IF Unwrap(stg_root.root) = c.client.headers_mmr_root
         THEN [ c EXCEPT !.pc = "proof" ]
         ELSE handler_before_tip(
                  c, find_spv_client_before_tip(Unwrap(c.ins),
                                                clients_len(Unwrap(c.ins)) \div 5))

handler_root2(c, stg_root) ==
    IF ~stg_root.ok THEN HandlerDone(c, "internal_error", 0)
    ELSE IF Unwrap(stg_root.root) # c.client.headers_mmr_root
         THEN HandlerDone(c, "api_error", OnchainReorgRequired)
         ELSE [ c EXCEPT !.pc = "proof" ]

handler_proof(c, pr) ==
    IF ~pr.ok THEN HandlerDone(c, "internal_error", 0)
    ELSE [ HandlerDone(c, "ok", 0) EXCEPT !.header_proof = pr.proof ]

\* the request arrives; the handler asks the Bitcoin source for the block of
\* the transaction and reads the storage tip
HandlerTip ==
    /\ call.op = "none"
    /\ is_initialized(storage)
    /\ IsSome(spv_instance)
    /\ \E target_height \in 0..btc_tip, confirmations \in 0..MaxConcConfirmations :
           call' = handler_tip(NewHandler(target_height, confirmations), tip_state(storage))
    /\ HandlerUnchanged /\ UNCHANGED cached_spv_instance

\* the header at target_height is read and compared; the instance is taken
\* from the cache or from the chain and the first strategy picks its client
HandlerHash ==
    /\ call.op = "get_tx_proof" /\ call.pc = "hash"
    /\ \E remote \in { "ok", "ckb_fail" } :
        \E h \in { bitcoin_header_hash(storage, call.target_height) },
           loaded \in { load_spv_instance(cached_spv_instance, now, call.stg_tip_height,
                                          call.target_confirmed) } :
            IF ~h.ok
            THEN /\ call' = HandlerDone(call, "api_error", StorageHeaderMissing)
                 /\ UNCHANGED cached_spv_instance
            ELSE IF call.target_hash # h.hash
            THEN /\ call' = HandlerDone(call, "api_error", StorageHeaderUnmatched)
                 /\ UNCHANGED cached_spv_instance
            ELSE IF IsSome(loaded)
            THEN /\ call' = handler_best(call, Unwrap(loaded),
                                find_best_spv_client_not_greater_than_height(
                                    Unwrap(loaded), call.stg_tip_height))
                 /\ UNCHANGED cached_spv_instance
            ELSE IF remote = "ckb_fail"
            THEN /\ call' = HandlerDone(call, "internal_error", 0)
                 /\ UNCHANGED cached_spv_instance
            ELSE /\ call' = handler_best(call, Unwrap(spv_instance),
                                find_best_spv_client_not_greater_than_height(
                                    Unwrap(spv_instance), call.stg_tip_height))
                 /\ cached_spv_instance' = update_spv_instance(Unwrap(spv_instance), now)
    /\ HandlerUnchanged

\* the local root at the height of the first strategy's client is read and
\* compared; on a mismatch the second strategy picks its client
HandlerRoot1 ==
    /\ call.op = "get_tx_proof" /\ call.pc = "root1"
    /\ call' = handler_root1(call, generate_headers_root(
                                       storage, call.client.headers_mmr_root.max_height))
    /\ HandlerUnchanged /\ UNCHANGED cached_spv_instance

HandlerRoot2 ==
    /\ call.op = "get_tx_proof" /\ call.pc = "root2"
    /\ call' = handler_root2(call, generate_headers_root(
                                       storage, call.client.headers_mmr_root.max_height))
    /\ HandlerUnchanged /\ UNCHANGED cached_spv_instance

\* the header proof is generated and the response is built
HandlerProof ==
    /\ call.op = "get_tx_proof" /\ call.pc = "proof"
    /\ call' = handler_proof(call, generate_headers_proof(
                                       storage, call.client.headers_mmr_root.max_height,
                                       <<call.target_height>>))
    /\ HandlerUnchanged /\ UNCHANGED cached_spv_instance

HandlerRespond ==
    /\ call.op = "get_tx_proof" /\ call.pc = "done"
    /\ call' = NoCall
    /\ HandlerUnchanged /\ UNCHANGED cached_spv_instance

NextConc ==
    \/ InitService
    \/ BtcExtendUpTo(MaxConcHeight)
    \/ BtcReorgUpTo(MaxConcHeight)
    \/ ServeIterationOf({ "ok" }, MaxConcTx)
    \/ HandlerTip
    \/ HandlerHash
    \/ HandlerRoot1
    \/ HandlerRoot2
    \/ HandlerProof
    \/ HandlerRespond

SpecConc == Init /\ [][NextConc]_vars

\* the header proof of a response proves the block the caller asked about
\* under the MMR root of the client the response names
ResponseVerifies(c, root) ==
    verify(root, leaf_index_to_mmr_size(root.max_height - root.min_height),
           c.header_proof,
           << << leaf_index_to_pos(c.target_height - root.min_height),
                 new_leaf(c.target_height, c.target_hash) >> >>)

\* C27: while the serve loop rolls the storage back and appends headers
\* between the reads of a getTxProof call, a successful response still
\* carries a header proof that verifies against the MMR root of the client
\* it returns.
Orig_C27_ProofVerifiesBesideLoop ==
    (call.op = "get_tx_proof" /\ call.pc = "done" /\ call.kind = "ok") =>
        ResponseVerifies(call, call.client.headers_mmr_root)

\* a response of a call during which the storage did not change verifies
Aux_C27_ProofVerifiesWhenAlone ==
    (rpc_result # NoRpc /\ rpc_result.kind = "ok") =>
        ResponseVerifies([ header_proof |-> rpc_result.header_proof,
                           target_height |-> rpc_result.req.target_height,
                           target_hash |-> BlockHashOf(rpc_result.req.target_height,
                                                       btc_variant) ],
                         rpc_result.client.headers_mmr_root)

(***************************************************************************)
(* What sync_storage reports as caught up.                                 *)
(***************************************************************************)
\* the storage and the source hold the same block at the greatest height
\* both have
AgreesWithSource(stg, v, t) ==
    \E h \in { IF Unwrap(stg.tip_bitcoin_height) <= t
                THEN Unwrap(stg.tip_bitcoin_height) ELSE t } :
        h >= Unwrap(stg.base_bitcoin_height) =>
            block_hash(stg.headers[h]) = BlockHashOf(h, v)

\* C28: sync_storage reports caught-up only when the storage tip lies on the
\* chain of the Bitcoin source; after the source moved to a branch whose tip
\* is not above the storage tip the divergence is detected, not reported as
\* caught-up.
Orig_C28_CaughtUpOnlyOnSourceChain ==
    (sync_result.kind = "ok" /\ sync_result.caught_up) =>
        AgreesWithSource(storage, btc_variant, btc_tip)

\* when the source tip is above the storage tip a caught-up result leaves
\* the storage on the source chain
Aux_C28_CaughtUpAfterDownload ==
    (sync_result.kind = "ok" /\ sync_result.caught_up /\ sync_result.path # "uptodate") =>
        /\ tip = btc_tip
        /\ AgreesWithSource(storage, btc_variant, btc_tip)

(***************************************************************************)
(* The Update and Reorg transactions: the SPV cells they consume, the      *)
(* cell they only refer to, and the data of the cells they create.         *)
(***************************************************************************)
\* every ring transaction creates the info cell as its output 0
info_out_point(ins) == <<ins.tx_count - 1, 0>>

Range(seq) == { seq[i] : i \in DOMAIN seq }

\* variant: the tip client is consumed and `next` is only referred to
update_spv_cells_tx_consuming_curr(ins, input, spv_client) ==
    [ inputs |-> << info_out_point(ins), input.curr.out_point >>,
      cell_deps |-> << input.next.out_point >>,
      info |-> [ tip_client_id |-> input.next.id ],
      clients |-> << [ id |-> input.next.id,
                       tip_block_hash |-> spv_client.tip_block_hash,
                       headers_mmr_root |-> spv_client.headers_mmr_root ] >> ]

\* the Update transaction; cell_deps lists the SPV cells among the cell deps
update_spv_cells_tx(ins, input, spv_client) ==
    [ inputs |-> << info_out_point(ins), input.next.out_point >>,
      cell_deps |-> << input.curr.out_point >>,
      info |-> [ tip_client_id |-> input.next.id ],
      clients |-> << [ id |-> input.next.id,
                       tip_block_hash |-> spv_client.tip_block_hash,
                       headers_mmr_root |-> spv_client.headers_mmr_root ] >> ]

\* variant: the new tip follows the tip of the info cell as it is on chain
reorg_spv_cells_tx_from_tip(ins, input, spv_client) ==
    [ inputs |-> << info_out_point(ins) >> \o
                 [ i \in 1..Len(input.stale) |-> input.stale[i].out_point ],
      cell_deps |-> << input.curr.out_point >>,
      info |-> [ tip_client_id |-> next_tip_client_id(ins.tip_client_id, clients_len(ins)) ],
      clients |-> [ i \in 1..Len(input.stale) |->
                      [ id |-> input.stale[i].id,
                        tip_block_hash |-> spv_client.tip_block_hash,
                        headers_mmr_root |-> spv_client.headers_mmr_root ] ] ]

\* the Reorg transaction; input.tip_client_id is the id the walk of
\* prepare_reorg_input ended on
reorg_spv_cells_tx(ins, input, spv_client) ==
    [ inputs |-> << info_out_point(ins) >> \o
                 [ i \in 1..Len(input.stale) |-> input.stale[i].out_point ],
      cell_deps |-> << input.curr.out_point >>,
      info |-> [ tip_client_id |-> next_tip_client_id(input.tip_client_id, clients_len(ins)) ],
      clients |-> [ i \in 1..Len(input.stale) |->
                      [ id |-> input.stale[i].id,
                        tip_block_hash |-> spv_client.tip_block_hash,
                        headers_mmr_root |-> spv_client.headers_mmr_root ] ] ]

\* the ring once the transaction is committed: the cells it consumed are
\* gone, its outputs are live (output 0 the info cell, then the clients)
committed(ins, tx) ==
    [ tip_client_id |-> tx.info.tip_client_id,
      clients |->
          [ id \in { k \in DOMAIN ins.clients : ins.clients[k].out_point \notin Range(tx.inputs) }
                    \cup { tx.clients[i].id : i \in DOMAIN tx.clients } |->
              IF \E i \in DOMAIN tx.clients : tx.clients[i].id = id
              THEN [ id |-> id,
                     tip_block_hash |-> tx.clients[1].tip_block_hash,
                     headers_mmr_root |-> tx.clients[1].headers_mmr_root,
                     out_point |-> <<ins.tx_count,
                                     CHOOSE i \in DOMAIN tx.clients : tx.clients[i].id = id>> ]
              ELSE ins.clients[id] ],
      tx_count |-> ins.tx_count + 1 ]

\* the operation the serve loop selects in the current state, with the
\* client it generates
Selected(op) ==
    { sel \in { select_operation(storage, Unwrap(spv_instance)) } : sel.ok /\ sel.op = op }

Generated(sel) ==
    { g \in { generate_spv_client_and_spv_update(
                  storage, sel.input.curr.headers_mmr_root.max_height,
                  U32(UpdateLimit), FALSE) } : g.ok }

UpdateTxRight(ins, input, tx, after) ==
    /\ input.curr = ins.clients[ins.tip_client_id]
    /\ input.next = ins.clients[(ins.tip_client_id + 1) % clients_len(ins)]
    /\ tx.inputs = << info_out_point(ins), input.next.out_point >>
    /\ input.curr.out_point \notin Range(tx.inputs)
    /\ input.curr.out_point \in Range(tx.cell_deps)
    /\ tx.info.tip_client_id = input.next.id
    /\ Len(tx.clients) = 1
    /\ tx.clients[1].id = input.next.id
    /\ after = committed(ins, tx)
    /\ DOMAIN after.clients = DOMAIN ins.clients
    /\ after.tip_client_id < clients_len(after)
    /\ after.clients[after.tip_client_id].out_point = <<ins.tx_count, 1>>
    /\ \A id \in DOMAIN ins.clients :
           ins.clients[id].out_point # <<ins.tx_count, 1>>

\* C29: an Update consumes the info cell and the client after the tip
\* client, id (tip_client_id + 1) mod clients_count, and nothing else of the
\* ring; the tip client is a cell dep only; the outputs give that id to the
\* new client and to info.tip_client_id; so after the Update tip_client_id is
\* below clients_count and names the client just written.
Thm_C29_UpdateRewritesNext ==
    (is_initialized(storage) /\ IsSome(spv_instance)) =>
        \A ins \in { Unwrap(spv_instance) } :
            \A sel \in Selected("Update") :
                \A g \in Generated(sel) :
                    UpdateTxRight(ins, sel.input,
                                  update_spv_cells_tx(ins, sel.input, g.spv_client),
                                  update_spv_cells(ins, sel.input, g.spv_client))

\* the Update that brought the tip from the last client of the ring to
\* client 0 was committed
Wit_C29_UpdateWrappedToZero ==
    /\ is_initialized(storage) /\ IsSome(spv_instance)
    /\ Unwrap(spv_instance).tip_client_id = 0
    /\ Unwrap(spv_instance).tx_count = ClientsCount + 1
    /\ Unwrap(spv_instance).clients[0].out_point = <<ClientsCount, 1>>
    /\ \A id \in 1..(ClientsCount - 1) :
           Unwrap(spv_instance).clients[id].out_point = <<id, 1>>

ReorgTxRight(ins, input, tx, after) ==
    /\ Len(input.stale) >= 1
    /\ tx.inputs = << info_out_point(ins) >> \o
                       [ i \in 1..Len(input.stale) |-> input.stale[i].out_point ]
    /\ \A i \in 1..Len(input.stale) : input.stale[i] = ins.clients[input.stale[i].id]
    /\ input.curr = ins.clients[input.curr.id]
    /\ input.curr.out_point \notin Range(tx.inputs)
    /\ input.curr.out_point \in Range(tx.cell_deps)
    /\ Len(tx.clients) = Len(input.stale)
    /\ \A i \in 1..Len(input.stale) :
           /\ tx.clients[i].id = input.stale[i].id
           /\ [ tx.clients[i] EXCEPT !.id = 0 ] = [ tx.clients[1] EXCEPT !.id = 0 ]
    /\ tx.info.tip_client_id = (input.curr.id + 1) % clients_len(ins)
    /\ \E i \in 1..Len(input.stale) : input.stale[i].id = tx.info.tip_client_id
    /\ after = committed(ins, tx)
    /\ DOMAIN after.clients = DOMAIN ins.clients
    /\ after.tip_client_id < clients_len(after)
    /\ after.clients[after.tip_client_id].out_point[1] = ins.tx_count
    /\ \A id \in DOMAIN ins.clients : ins.clients[id].out_point[1] < ins.tx_count

\* C30: a Reorg consumes the info cell and every stale client and not curr,
\* which is a cell dep only; it creates one client per stale cell, with that
\* cell's id and otherwise the same content; info.tip_client_id becomes
\* (curr.id + 1) mod clients_count, the id of one of the rewritten clients;
\* so after the Reorg tip_client_id is below clients_count and names a
\* client just written.
Thm_C30_ReorgRewritesStale ==
    (is_initialized(storage) /\ IsSome(spv_instance)) =>
        \A ins \in { Unwrap(spv_instance) } :
            \A sel \in Selected("Reorg") :
                \A g \in Generated(sel) :
                    ReorgTxRight(ins, sel.input,
                                 reorg_spv_cells_tx(ins, sel.input, g.spv_client),
                                 reorg_spv_cells(ins, sel.input, g.spv_client))

\* a Reorg of two stale clients was committed: both carry the same new root
\* and the tip is the one next to curr, not the tip before the Reorg
Wit_C30_ReorgOfTwoCommitted ==
    /\ is_initialized(storage) /\ IsSome(spv_instance)
    /\ \E ins \in { Unwrap(spv_instance) } :
           \E id \in DOMAIN ins.clients :
               /\ ins.tip_client_id = id
               /\ ins.clients[id].out_point = <<ins.tx_count - 1, 2>>
               /\ ins.clients[(id + 1) % clients_len(ins)].out_point = <<ins.tx_count - 1, 1>>
               /\ ins.clients[(id + 1) % clients_len(ins)].headers_mmr_root
                      = ins.clients[id].headers_mmr_root
               /\ RootMatches(storage, ins.clients[id])

(***************************************************************************)
(* rollback_to as the program calls it: with Some(fork_height) from        *)
(* sync_storage, and with None from a caller of the storage API, on any    *)
(* store.                                                                  *)
(***************************************************************************)
\* rollback_to(None), also on a store that was never initialised
RollbackToBase ==
    /\ \E r \in { rollback_to(storage, None) } :
           /\ storage' = r.storage
           /\ call' = [ op |-> "rollback_to", height_opt |-> None, ok |-> r.ok,
                        before |-> storage, after |-> r.storage ]
           /\ last_op' = [ op |-> "rollback_to", ok |-> r.ok, prev |-> last_op.op ]
    /\ sync_result' = NoSync
    /\ rpc_result' = NoRpc
    /\ UNCHANGED << btc_variant, btc_tip, spv_instance, cached_spv_instance, now,
                    prev_tx_hash, tx_status, sent, serve >>

NextRollback == InitService \/ BtcExtend \/ BtcReorg \/ SyncStorage \/ RollbackToBase

SpecRollback == Init /\ [][NextRollback]_vars

\* sync_storage reached its rollback_to(Some(fork_height))
RolledBackToFork ==
    sync_result.kind # "none" /\ sync_result.path = "fork" /\ IsSome(sync_result.fork_point)

\* the download after the rollback did not append anything
NothingAppendedAfter == sync_result.kind = "err" \/ ~sync_result.caught_up

\* rollback_to(Some(h)) as sync_storage called it: the tip is h, within
\* [base, old tip], and nothing else of the store changed
RollbackToSomeRight ==
    RolledBackToFork =>
        \E h \in { Unwrap(sync_result.fork_point)[1] } :
            \E rb \in { rollback_to(sync_result.storage_before, Some(h)) } :
                /\ rb.ok
                /\ rb.storage.tip_bitcoin_height = Some(h)
                /\ Unwrap(sync_result.storage_before.base_bitcoin_height) <= h
                /\ h <= tip_before
                /\ rb.storage = [ sync_result.storage_before EXCEPT !.tip_bitcoin_height = Some(h) ]
                /\ NothingAppendedAfter => storage = rb.storage

\* rollback_to(None): the tip is the base on an initialised store, and the
\* call fails, changing nothing, on a store without a base
RollbackToNoneRight ==
    call.op = "rollback_to" =>
        IF IsSome(call.before.base_bitcoin_height)
        THEN /\ call.ok
             /\ call.after = [ call.before EXCEPT
                                 !.tip_bitcoin_height = call.before.base_bitcoin_height ]
        ELSE ~call.ok /\ call.after = call.before

\* a step that lowers the tip height is a rollback
TipLoweredOnlyByRollback ==
    (/\ IsSome(storage.tip_bitcoin_height)
     /\ IsSome(storage'.tip_bitcoin_height)
     /\ Unwrap(storage'.tip_bitcoin_height) < Unwrap(storage.tip_bitcoin_height)) =>
        \/ last_op'.op = "rollback_to"
        \/ /\ last_op'.op = "sync_storage"
           /\ sync_result'.path = "fork" /\ IsSome(sync_result'.fork_point)

\* C31: every rollback_to(Some(h)) the program performs leaves the tip at h
\* within [base, old tip]; rollback_to(None) sets the tip to the base and
\* fails on a store that was never initialised; a step that is not a rollback
\* never lowers the tip height.
Thm_C31_RollbackWithinRange ==
    /\ [](RollbackToSomeRight /\ RollbackToNoneRight)
    /\ [][TipLoweredOnlyByRollback]_vars

\* sync_storage rolled a store of three headers back and the download then
\* failed, after rollback_to(None) was refused on the empty store
Wit_C31_RolledBackBelowTip ==
    /\ RolledBackToFork /\ NothingAppendedAfter
    /\ tip_before = base + 2
    /\ tip < tip_before
    /\ call.op = "rollback_to" /\ ~call.ok

(***************************************************************************)
(* The heights the service asks the store a root or a proof for.           *)
(***************************************************************************)
\* the iteration of the serve loop came to select_operation, which asks for
\* the root at the max_height of the on-chain tip client
ReachedSelectOperation ==
    \/ serve.outcome \in { "no_update", "submitted" }
    \/ /\ serve.outcome = "error"
       /\ serve.cause \in { "select_operation", "generate_spv_client_and_spv_update",
                            "send_transaction" }

\* C32: the serve loop asks for an MMR root only at a height that is not
\* above the storage tip, also when the on-chain ring is ahead of the
\* storage.
Orig_C32_RootsRequestedWithinTip ==
    ReachedSelectOperation =>
        TipClient(Unwrap(spv_instance)).headers_mmr_root.max_height <= tip

\* strategy 1 of getTxProof asks for the root at the height of a client that
\* is not above the storage tip the handler read
Aux_C32_StrategyOneWithinTip ==
    (rpc_result # NoRpc /\ rpc_result.best # NoCell) =>
        rpc_result.best.headers_mmr_root.max_height <= rpc_result.stg_tip_height

(***************************************************************************)
(* The confirmation checks of getTxProof against the sum                   *)
(* target_height + confirmations taken in the integers.                    *)
(***************************************************************************)
\* the code of the response, 0 when it is not an API error
CodeOf(r) == IF r.kind = "api_error" THEN r.code ELSE 0

\* the handler chose a client in strategy 1 or 2 and did not end with an
\* internal error
ClientChosen == rpc_result.best # NoCell /\ rpc_result.kind # "internal_error"

\* the storage tip below the sum gives 23102, a chosen client below the sum
\* gives 25101, and a proof is returned only for a target_height that the
\* chosen client covers
ConfirmationChecksRight ==
    /\ (tip >= rpc_result.req.target_height
        /\ BelowSum(tip, rpc_result.req.target_height, rpc_result.req.confirmations))
           => CodeOf(rpc_result) = StorageTxUnconfirmed
    /\ (ClientChosen
        /\ BelowSum(rpc_result.client.headers_mmr_root.max_height,
                    rpc_result.req.target_height, rpc_result.req.confirmations))
           => CodeOf(rpc_result) = OnchainTxUnconfirmed
    /\ rpc_result.kind = "ok"
           => rpc_result.req.target_height <= rpc_result.client.headers_mmr_root.max_height

\* C33: for every target_height and confirmations, also those whose sum
\* exceeds 2^32 - 1, a storage tip (a chosen client) below the sum is
\* answered with StorageTxUnconfirmed (OnchainTxUnconfirmed), and no proof is
\* returned for a target_height above the chosen client's max_height.
Orig_C33_SumNeverWraps == ChecksReached => ConfirmationChecksRight

\* the same for the requests whose sum fits in 32 bits
Aux_C33_SumsThatFit ==
    (ChecksReached
     /\ ~add_overflows(U32(rpc_result.req.target_height), rpc_result.req.confirmations))
        => ConfirmationChecksRight

\* no proof is returned for a target_height above the chosen client
Aux_C33_ProofWithinClient ==
    (rpc_result # NoRpc /\ rpc_result.kind = "ok")
        => rpc_result.req.target_height <= rpc_result.client.headers_mmr_root.max_height

(***************************************************************************)
(* The update a Reorg generates, by the chain type of the instance.        *)
(***************************************************************************)
\* the limit the serve loop passes for a Reorg
reorg_limit(chain_type) ==
    IF chain_type = "Testnet" THEN U32(UpdateLimit) ELSE U32FromTop(1)

\* the update g covers the stored headers of p+1 ..= min(t, p + limit), the
\* sum taken in the integers, t being the tip of stg
TipIsMinOverIntegers(stg, g, p, limit) ==
    \E t \in { MinTip(Unwrap(stg.tip_bitcoin_height), p, limit) } :
        /\ g.ok
        /\ g.spv_client.headers_mmr_root.max_height = t
        /\ Len(g.headers) = t - p
        /\ \A i \in 1..Len(g.headers) : g.headers[i] = stg.headers[p + i]

\* the Reorg the serve loop selects on the ring it found, after sync_storage
ReorgSelected ==
    { sel \in { select_operation(storage', Unwrap(spv_instance)) } :
        sel.ok /\ sel.op = "Reorg" }

\* the step is an iteration of the serve loop that changed the ring it found
RingRewritten == IsSome(spv_instance) /\ spv_instance' # spv_instance

\* the update of the Reorg sel on an instance of the given chain types
ReorgUpdateRight(sel, chain_types) ==
    \A chain_type \in chain_types, overflow_checks \in BOOLEAN :
        \A g \in { generate_spv_client_and_spv_update(
                       storage', sel.input.curr.headers_mmr_root.max_height,
                       reorg_limit(chain_type), overflow_checks) } :
            TipIsMinOverIntegers(storage', g, sel.input.curr.headers_mmr_root.max_height,
                                 reorg_limit(chain_type))

\* C34: the update of a Reorg reaches min(storage_tip, prev_height + limit)
\* with the sum taken in the integers: all of prev_height+1 ..= storage_tip
\* with the limit 2^32 - 1 of a chain other than testnet, at most
\* spv_headers_update_limit headers on testnet.
Orig_C34_ReorgSumNeverWraps ==
    [][ RingRewritten =>
            \A sel \in ReorgSelected : ReorgUpdateRight(sel, { "Testnet", "Mainnet" }) ]_vars

\* the Reorg of a testnet instance is capped by spv_headers_update_limit
Aux_C34_TestnetReorgCapped ==
    [][ RingRewritten =>
            \A sel \in ReorgSelected : ReorgUpdateRight(sel, { "Testnet" }) ]_vars

(***************************************************************************)
(* Two getTxProof handlers beside the serve loop, from the cache lookup to *)
(* the cache update: each handler step is one access to the cache lock or  *)
(* one call to the CKB node.                                               *)
(***************************************************************************)
\* source tip and ring transactions up to which the loop is followed
MaxCacheHeight == 3
MaxCacheTx == 2

Handlers == 1..2

\* two requests arrive; both passed the storage checks on the same tip
NewRequests ==
    /\ call = NoCall
    /\ is_initialized(storage)
    /\ IsSome(spv_instance)
    /\ call' = [ op |-> "getTxProof", pc |-> <<"load", "load">>,
                 instance |-> <<None, None>>, fetched_at |-> <<0, 0>>, fetches |-> 0,
                 written |-> {}, stg_tip_height |-> tip ]
    /\ UNCHANGED << storage, btc_variant, btc_tip, spv_instance, cached_spv_instance, now,
                    last_op, sync_result, rpc_result, prev_tx_hash, tx_status, sent, serve >>

HandlersUnchanged ==
    UNCHANGED << storage, btc_variant, btc_tip, spv_instance, now, last_op, sync_result,
                 rpc_result, prev_tx_hash, tx_status, sent, serve >>

\* load_spv_instance: the cached instance, or a miss
HandlerLoad ==
    /\ call.op = "getTxProof"
    /\ \E i \in Handlers :
        /\ call.pc[i] = "load"
        /\ \E loaded \in { load_spv_instance(cached_spv_instance, now, call.stg_tip_height,
                                              U32(BaseHeight)) } :
               call' = [ call EXCEPT !.pc[i] = IF IsSome(loaded) THEN "done" ELSE "fetch",
                                     !.instance[i] = loaded ]
    /\ UNCHANGED cached_spv_instance
    /\ HandlersUnchanged

\* ckb_cli.find_spv_cells: the ring as it is on chain now
HandlerFetch ==
    /\ call.op = "getTxProof"
    /\ \E i \in Handlers :
        /\ call.pc[i] = "fetch"
        /\ call' = [ call EXCEPT !.pc[i] = "update", !.instance[i] = spv_instance,
                                 !.fetches = call.fetches + 1,
                                 !.fetched_at[i] = call.fetches + 1 ]
    /\ UNCHANGED cached_spv_instance
    /\ HandlersUnchanged

\* update_spv_instance: the entry is replaced under the write lock
HandlerUpdate ==
    /\ call.op = "getTxProof"
    /\ \E i \in Handlers :
        /\ call.pc[i] = "update"
        /\ cached_spv_instance' = update_spv_instance(Unwrap(call.instance[i]), now)
        /\ call' = [ call EXCEPT !.pc[i] = "done",
                                 !.written = call.written \cup
                                     { << Unwrap(call.instance[i]), now >> } ]
    /\ HandlersUnchanged

\* both handlers answered
RequestsDone ==
    /\ call.op = "getTxProof"
    /\ call.pc = <<"done", "done">>
    /\ call' = NoCall
    /\ UNCHANGED cached_spv_instance
    /\ HandlersUnchanged

NextCache ==
    \/ InitService
    \/ BtcExtendUpTo(MaxCacheHeight)
    \/ ServeIterationOf({ "ok" }, MaxCacheTx)
    \/ Tick
    \/ NewRequests
    \/ HandlerLoad
    \/ HandlerFetch
    \/ HandlerUpdate
    \/ RequestsDone

SpecCache == Init /\ [][NextCache]_vars

\* both handlers missed the cache, fetched the ring and wrote the cache
BothRefetched ==
    /\ call.op = "getTxProof"
    /\ call.pc = <<"done", "done">>
    /\ call.fetched_at[1] > 0 /\ call.fetched_at[2] > 0

\* C35: after two handlers that both missed the cache have finished, the
\* cache holds the instance that was fetched later from CKB.
Orig_C35_LaterFetchStays ==
    BothRefetched =>
        \E i \in Handlers :
            /\ call.fetched_at[i] = 2
            /\ Unwrap(cached_spv_instance).instance = Unwrap(call.instance[i])

\* the entry a reader finds is an instance with the expiry of the
\* update_spv_instance call that wrote this instance
Aux_C35_EntryWrittenWhole ==
    (call.op = "getTxProof" /\ call.written # {}) =>
        \E w \in call.written :
            cached_spv_instance = Some([ instance |-> w[1],
                                         expired_timestamp |-> w[2] + SPV_INSTANCE_CACHED_SECS ])

(***************************************************************************)
(* The serve loop on a source that comes to rest: every call to the source *)
(* and to the CKB node succeeds, every transaction sent is proposed and    *)
(* committed, and the loop goes on iterating as long as `execute` runs.    *)
(***************************************************************************)
\* source tip up to which the loop is followed, and transactions it may send
MaxLiveHeight == 4
MaxLiveSent == 6

\* the service as `serve` finds it: initialised by `init` at the base
InitLive ==
    /\ storage = initialize_with(EmptyStorage, BaseHeight, HeaderOf(BaseHeight, 0)).storage
    /\ spv_instance = Some(NewSpvInstance(
           initialize_with(EmptyStorage, BaseHeight, HeaderOf(BaseHeight, 0)).spv_client))
    /\ btc_variant = 0
    /\ btc_tip = BaseHeight
    /\ cached_spv_instance = None
    /\ now = 0
    /\ last_op = NoOp
    /\ sync_result = NoSync
    /\ rpc_result = NoRpc
    /\ prev_tx_hash = None
    /\ tx_status = "none"
    /\ sent = <<>>
    /\ serve = NoIteration
    /\ call = NoCall

\* the source switches to a branch it has not followed yet; with
\* BtcExtendUpTo this lets the source change finitely often
BtcReorgForward ==
    /\ \E v \in Variants, t \in BaseHeight..MaxLiveHeight :
           /\ v > btc_variant
           /\ btc_variant' = v
           /\ btc_tip' = t
    /\ sync_result' = NoSync
    /\ rpc_result' = NoRpc
    /\ LoopIdle /\ UNCHANGED << storage, spv_instance, cached_spv_instance, now, last_op >>

\* an iteration of the loop in which every remote call succeeds
ServeLive == ServeLoopWith({ "ok" }, { "ok" }, MaxLiveSent)

NextLive ==
    \/ BtcExtendUpTo(MaxLiveHeight)
    \/ BtcReorgForward
    \/ ServeLive
    \/ CkbPropose
    \/ CkbCommit

\* an iteration of ServeLive would change the state: the enabling condition
\* of << ServeLive >>_vars, computed from the iteration's result
ServeLiveChanges ==
    /\ serve.running
    /\ is_initialized(storage)
    /\ IsSome(spv_instance)
    /\ Len(sent) < MaxLiveSent
    /\ \E r \in { sync_storage(storage, btc_variant, btc_tip, "ok") } :
           \E o \in { serve_iteration(r, "ok", Unwrap(spv_instance), prev_tx_hash,
                                          tx_status, "ok") } :
               \/ r.storage # storage
               \/ last_op # [ op |-> "sync_storage", ok |-> (r.kind = "ok"), prev |-> "none" ]
               \/ serve # [ running |-> (o.outcome # "error"), outcome |-> o.outcome,
                            op |-> o.op, cause |-> o.cause ]
               \/ o.outcome = "submitted"
               \/ sync_result # NoSync
               \/ rpc_result # NoRpc

\* The loop iterates for as long as `execute` runs, and the CKB node proposes
\* and commits what it was sent.  The fairness of the loop is WF_vars(ServeLive)
\* with its enabling condition written as the state predicate above.
SpecLive ==
    /\ InitLive /\ [][NextLive]_vars
    /\ WF_vars(CkbPropose) /\ WF_vars(CkbCommit)
    /\ ([]<>(~ServeLiveChanges) \/ []<>(<< ServeLive >>_vars))

\* the on-chain tip client is at the storage tip with the storage's root
RingLevelWithStorage ==
    /\ TipClient(Unwrap(spv_instance)).headers_mmr_root.max_height = tip
    /\ RootAt(storage, tip).root = Some(TipClient(Unwrap(spv_instance)).headers_mmr_root)

Aux_C36_SentBelowBound == Len(sent) < MaxLiveSent
(***************************************************************************)
(* The cadence of the serve loop: which iterations call take_a_break       *)
(* before the next one starts.                                             *)
(***************************************************************************)
\* take_a_break is called on the way to the next iteration: after a
\* transaction found Pending or Proposed and after "No updates"
takes_a_break(outcome) == outcome \in { "waiting", "no_update" }

\* the iteration just made is followed by another one
IterationToFollow == serve.running /\ serve.outcome # "none"

\* C37: every iteration of the serve loop that is followed by another one
\* ends with the blocking sleep, whatever path it took.
Orig_C37_SleepAfterEveryIteration ==
    IterationToFollow => takes_a_break(serve.outcome)

\* the paths that do sleep are the wait on a transaction in the pool and
\* "No updates"; the paths that do not are not-caught-up and a transaction sent
Aux_C37_PathsWithoutSleep ==
    (IterationToFollow /\ ~takes_a_break(serve.outcome)) =>
        serve.outcome \in { "not_caught_up", "submitted" }
(***************************************************************************)
(* The `init` command, run any number of times on one data directory, with *)
(* the step at which a run fails.                                          *)
(***************************************************************************)
\* how a run of `init` ends: "ok", or the step that fails
InitOutcomes ==
    { "ok", "fetch_header", "no_live_cell", "not_enough_cells", "sign_transaction",
      "send_transaction" }

\* Args::execute of `init`: the start header is fetched, the storage is
\* initialised, then the transaction is built, signed and sent.  `fails` is
\* the step that fails in this run.
init_execute(stg, v, start_height, fails) ==
    IF fails = "fetch_header"
    THEN [ outcome |-> fails, storage |-> stg, ring |-> None ]
    ELSE IF ~initialize_with(stg, start_height, get_block_header_by_height(v, start_height)).ok
         THEN [ outcome |-> "initialize_with", storage |-> stg, ring |-> None ]
         ELSE [ outcome |-> fails,
                storage |-> initialize_with(stg, start_height,
                                get_block_header_by_height(v, start_height)).storage,
                ring |-> IF fails = "ok"
                         THEN Some(NewSpvInstance(
                                  initialize_with(stg, start_height,
                                      get_block_header_by_height(v, start_height)).spv_client))
                         ELSE None ]

InitExecute ==
    /\ \E start_height \in BaseHeight..btc_tip, fails \in InitOutcomes :
        \E r \in { init_execute(storage, btc_variant, start_height, fails) } :
            /\ storage' = r.storage
            /\ spv_instance' = IF IsSome(r.ring) THEN r.ring ELSE spv_instance
            /\ call' = [ op |-> "init", start_height |-> start_height, outcome |-> r.outcome ]
            /\ last_op' = [ op |-> "initialize_with", ok |-> (r.storage # storage), prev |-> "none" ]
    /\ sync_result' = NoSync
    /\ rpc_result' = NoRpc
    /\ UNCHANGED << btc_variant, btc_tip, cached_spv_instance, now, prev_tx_hash, tx_status,
                    sent, serve >>

NextInit == InitExecute \/ BtcExtend \/ BtcReorg

SpecInit == Init /\ [][NextInit]_vars

\* C38: whatever step of `init` failed, the storage is initialised exactly
\* when the transaction creating the ring was sent.
Orig_C38_StorageInitialisedIffRingSent ==
    is_initialized(storage) <=> IsSome(spv_instance)

\* the ring is only ever created for an initialised storage
Aux_C38_RingImpliesStorage ==
    IsSome(spv_instance) => is_initialized(storage)

\* on an initialised storage every further run of `init` fails, at the fetch
\* of the header or at initialize_with
Aux_C38_RerunRefused ==
    [][ (is_initialized(storage) /\ call' # call) =>
            call'.outcome \in { "fetch_header", "initialize_with" } ]_vars
(***************************************************************************)
(* append_headers write by write: every put of a header, of an MMR node    *)
(* and of the tip height is a step, and `storage` is what a reader of the  *)
(* store finds between two writes.  `call` holds the append in progress.   *)
(***************************************************************************)
\* append_headers up to its loop: the tip state and the MMR of the tip
append_begin(stg, headers) ==
    IF headers = <<>> \/ ~tip_state(stg).ok \/ ~chain_root_mmr(stg, tip_state(stg).height).ok
    THEN [ op |-> "append_headers", phase |-> "failed", before |-> stg ]
    ELSE [ op |-> "append_headers", phase |-> "loop", before |-> stg,
           headers |-> headers, i |-> 1,
           tip_height |-> tip_state(stg).height,
           tip_hash |-> block_hash(tip_state(stg).header),
           mmr |-> chain_root_mmr(stg, tip_state(stg).height).mmr,
           position |-> chain_root_mmr(stg, tip_state(stg).height).mmr.mmr_size ]

\* variant: the tip height is moved with every header written
append_step_tip_per_header(stg, c) ==
    IF c.phase = "loop" /\ c.i <= Len(c.headers)
    THEN IF ~is_continuous(c.tip_hash, c.headers[c.i])
         THEN [ storage |-> stg, call |-> [ c EXCEPT !.phase = "failed" ] ]
         ELSE IF ~push(c.mmr, new_leaf(c.tip_height + 1, block_hash(c.headers[c.i]))).ok
              THEN [ storage |-> put_bitcoin_header(stg, c.tip_height + 1, c.headers[c.i]),
                     call |-> [ c EXCEPT !.phase = "failed" ] ]
              ELSE [ storage |-> put_tip_bitcoin_height(
                                     put_bitcoin_header(stg, c.tip_height + 1, c.headers[c.i]),
                                     c.tip_height + 1),
                     call |-> [ c EXCEPT !.tip_height = c.tip_height + 1,
                                         !.tip_hash = block_hash(c.headers[c.i]),
                                         !.mmr = push(c.mmr, new_leaf(c.tip_height + 1,
                                                     block_hash(c.headers[c.i]))).mmr,
                                         !.i = c.i + 1 ] ]
    ELSE IF c.position < c.mmr.mmr_size
         THEN [ storage |-> [ stg EXCEPT !.header_mmr =
                                  Put(stg.header_mmr, c.position, c.mmr.nodes[c.position]) ],
                call |-> [ c EXCEPT !.phase = "commit", !.position = c.position + 1 ] ]
         ELSE [ storage |-> put_tip_bitcoin_height(stg, c.tip_height),
                call |-> [ c EXCEPT !.phase = "done" ] ]

\* The next write of the append c.  In the loop: the continuity check, the
\* put of the header and the push into the MMR's batch.  After the loop:
\* mmr.commit() puts the nodes of the batch one by one, then the tip height
\* is put.
append_step(stg, c) ==
    IF c.phase = "loop" /\ c.i <= Len(c.headers)
    THEN IF ~is_continuous(c.tip_hash, c.headers[c.i])
         THEN [ storage |-> stg, call |-> [ c EXCEPT !.phase = "failed" ] ]
         ELSE IF ~push(c.mmr, new_leaf(c.tip_height + 1, block_hash(c.headers[c.i]))).ok
              THEN [ storage |-> put_bitcoin_header(stg, c.tip_height + 1, c.headers[c.i]),
                     call |-> [ c EXCEPT !.phase = "failed" ] ]
              ELSE [ storage |-> put_bitcoin_header(stg, c.tip_height + 1, c.headers[c.i]),
                     call |-> [ c EXCEPT !.tip_height = c.tip_height + 1,
                                         !.tip_hash = block_hash(c.headers[c.i]),
                                         !.mmr = push(c.mmr, new_leaf(c.tip_height + 1,
                                                     block_hash(c.headers[c.i]))).mmr,
                                         !.i = c.i + 1 ] ]
    ELSE IF c.position < c.mmr.mmr_size
         THEN [ storage |-> [ stg EXCEPT !.header_mmr =
                                  Put(stg.header_mmr, c.position, c.mmr.nodes[c.position]) ],
                call |-> [ c EXCEPT !.phase = "commit", !.position = c.position + 1 ] ]
         ELSE [ storage |-> put_tip_bitcoin_height(stg, c.tip_height),
                call |-> [ c EXCEPT !.phase = "done" ] ]

\* an append is between two of its writes
AppendInProgress == call.op = "append_headers" /\ call.phase \in { "loop", "commit" }

WritesUnchanged ==
    UNCHANGED << btc_variant, btc_tip, spv_instance, cached_spv_instance, now, sync_result,
                 rpc_result, prev_tx_hash, tx_status, sent, serve >>

\* The batches the loop hands to append_headers: headers of the source for
\* the heights above the tip, of one branch or of two when the source
\* switched branches during the download.
BatchesAbove(t) ==
    { <<HeaderOf(t + 1, v)>> : v \in Variants } \cup
    { <<HeaderOf(t + 1, v), HeaderOf(t + 2, w)>> : v \in Variants, w \in Variants }

AppendBegin ==
    /\ is_initialized(storage)
    /\ ~AppendInProgress
    /\ \E headers \in { b \in BatchesAbove(tip) : tip + Len(b) <= MaxHeight } :
           call' = append_begin(storage, headers)
    /\ last_op' = [ op |-> "append_headers", ok |-> TRUE, prev |-> last_op.op ]
    /\ UNCHANGED storage
    /\ WritesUnchanged

AppendWrite ==
    /\ AppendInProgress
    /\ \E r \in { append_step(storage, call) } :
           /\ storage' = r.storage
           /\ call' = r.call
    /\ UNCHANGED last_op
    /\ WritesUnchanged

\* the loop is the only writer: it rolls back between two appends
RollbackBetween ==
    /\ is_initialized(storage)
    /\ ~AppendInProgress
    /\ \E h \in base..tip :
           storage' = rollback_to(storage, Some(h)).storage
    /\ last_op' = [ op |-> "rollback_to", ok |-> TRUE, prev |-> last_op.op ]
    /\ call' = NoCall
    /\ WritesUnchanged

InitializeFirst ==
    /\ ~is_initialized(storage)
    /\ InitializeWith

NextAppend == InitializeFirst \/ AppendBegin \/ AppendWrite \/ RollbackBetween

SpecAppend == Init /\ [][NextAppend]_vars

\* the tip and the MMR size of the tip when the append was called
TipAtCall == Unwrap(call.before.tip_bitcoin_height)
SizeAtCall == leaf_index_to_mmr_size(TipAtCall - base)

\* what a reader that reads the tip finds below it: a header at every height
\* of [base, tip] and, below the MMR size of the tip, the nodes of these headers
RangeComplete ==
    /\ \A h \in base..tip : h \in DOMAIN storage.headers
    /\ \A pos \in 0..(leaf_index_to_mmr_size(tip - base) - 1) :
           /\ pos \in DOMAIN storage.header_mmr
           /\ storage.header_mmr[pos] = ExpectedNode(storage, pos)

\* nothing at or below the tip at call time was written
RangeUnmodified ==
    /\ \A h \in DOMAIN call.before.headers :
           h <= TipAtCall => storage.headers[h] = call.before.headers[h]
    /\ \A pos \in DOMAIN call.before.header_mmr :
           pos < SizeAtCall => storage.header_mmr[pos] = call.before.header_mmr[pos]

\* the tip height is put last, after the whole batch
TipPutLast ==
    IF call.phase = "done"
    THEN tip = TipAtCall + Len(call.headers) /\ call.position = call.mmr.mmr_size
    ELSE tip = TipAtCall

\* C39: at every moment of an append, also of one that follows a rollback,
\* no header at or below the tip at call time and no MMR node below the MMR
\* size of that tip was written, the tip height moves only with the last
\* write, and the headers and nodes of [base, tip] are complete.
Thm_C39_AppendKeepsRangeBelowTip ==
    is_initialized(storage) =>
        /\ RangeComplete
        /\ call.op = "append_headers" => (RangeUnmodified /\ TipPutLast)

\* in the middle of the commit of an append that follows a rollback, with a
\* header of the discarded branch already overwritten above the tip
Wit_C39_CommitAfterRollback ==
    /\ is_initialized(storage)
    /\ call.op = "append_headers" /\ call.phase = "commit"
    /\ last_op.prev = "rollback_to"
    /\ call.position < call.mmr.mmr_size
    /\ (TipAtCall + 1) \in DOMAIN call.before.headers
    /\ storage.headers[TipAtCall + 1] # call.before.headers[TipAtCall + 1]
(***************************************************************************)
(* The target adjust info of generate_spv_client_and_spv_update, applied   *)
(* to stores initialised at a multiple of the difficulty adjustment        *)
(* interval, for every tip height of the first windows.                    *)
(***************************************************************************)
\* bitcoin::constants::DIFFCHANGE_INTERVAL
DIFFCHANGE_INTERVAL == 2016

\* highest tip height the function is applied to
MaxAdjustTip == 4033

\* start heights `init` accepts: the multiples of DIFFCHANGE_INTERVAL
AdjustBases == { 0, DIFFCHANGE_INTERVAL }

\* the header of the source at a height: every block with its own time and bits
AdjustHeader(height) ==
    [ time |-> 1000 + height, bits |-> 7 * height + 3, nonce |-> 0, prev_blockhash |-> height ]

\* a store holding the headers of [base_height, tip_height]
AdjustStorage(base_height, tip_height) ==
    [ base_bitcoin_height |-> Some(base_height), tip_bitcoin_height |-> Some(tip_height),
      headers |-> [ h \in base_height..tip_height |-> AdjustHeader(h) ],
      header_mmr |-> <<>> ]

\* packed::TargetAdjustInfo::encode
encode(start_time, bits) == [ start_time |-> start_time, bits |-> bits ]

\* calculate_next_target(..).to_compact_lossy(): the bits of the next window,
\* a function of the current bits and of the times of the window's first and
\* last header
next_bits(curr_bits, start_time, tip_time) ==
    [ retarget |-> curr_bits, start_time |-> start_time, tip_time |-> tip_time ]

\* variant: the start height is that of the window of the next block
target_adjust_info_next_window(stg, tip_height) ==
    IF ~get_bitcoin_header(stg, tip_height).ok THEN [ ok |-> FALSE ]
    ELSE IF (tip_height + 1) % DIFFCHANGE_INTERVAL = 1
         THEN [ ok |-> TRUE,
                info |-> encode(get_bitcoin_header(stg, tip_height).header.time,
                                get_bitcoin_header(stg, tip_height).header.bits) ]
         ELSE IF ~get_bitcoin_header(stg,
                     ((tip_height + 1) \div DIFFCHANGE_INTERVAL) * DIFFCHANGE_INTERVAL).ok
              THEN [ ok |-> FALSE ]
              ELSE IF (tip_height + 1) % DIFFCHANGE_INTERVAL = 0
                   THEN [ ok |-> TRUE,
                          info |-> encode(
                              get_bitcoin_header(stg,
                                  ((tip_height + 1) \div DIFFCHANGE_INTERVAL)
                                      * DIFFCHANGE_INTERVAL).header.time,
                              next_bits(get_bitcoin_header(stg, tip_height).header.bits,
                                        get_bitcoin_header(stg,
                                            ((tip_height + 1) \div DIFFCHANGE_INTERVAL)
                                                * DIFFCHANGE_INTERVAL).header.time,
                                        get_bitcoin_header(stg, tip_height).header.time)) ]
                   ELSE [ ok |-> TRUE,
                          info |-> encode(
                              get_bitcoin_header(stg,
                                  ((tip_height + 1) \div DIFFCHANGE_INTERVAL)
                                      * DIFFCHANGE_INTERVAL).header.time,
                              get_bitcoin_header(stg,
                                  ((tip_height + 1) \div DIFFCHANGE_INTERVAL)
                                      * DIFFCHANGE_INTERVAL).header.bits) ]

\* the start header and the flag decide what is encoded
target_adjust_info_from(flag, tip_header, start) ==
    IF ~start.ok THEN [ ok |-> FALSE ]
    ELSE IF flag = 0
         THEN [ ok |-> TRUE,
                info |-> encode(start.header.time,
                                next_bits(tip_header.bits, start.header.time, tip_header.time)) ]
         ELSE [ ok |-> TRUE, info |-> encode(start.header.time, start.header.bits) ]

\* generate_spv_client_and_spv_update, the target adjust info of the client
\* generated for tip_height
target_adjust_info(stg, tip_height) ==
    IF ~get_bitcoin_header(stg, tip_height).ok THEN [ ok |-> FALSE ]
    ELSE IF (tip_height + 1) % DIFFCHANGE_INTERVAL = 1
         THEN [ ok |-> TRUE,
                info |-> encode(get_bitcoin_header(stg, tip_height).header.time,
                                get_bitcoin_header(stg, tip_height).header.bits) ]
         ELSE target_adjust_info_from(
                  (tip_height + 1) % DIFFCHANGE_INTERVAL,
                  get_bitcoin_header(stg, tip_height).header,
                  get_bitcoin_header(stg,
                      (tip_height \div DIFFCHANGE_INTERVAL) * DIFFCHANGE_INTERVAL))

\* the inputs: a store initialised at a multiple of the interval, and its tip
InitAdjust ==
    /\ \E base_height \in AdjustBases :
        \E tip_height \in base_height..MaxAdjustTip :
            call = [ op |-> "input", base_height |-> base_height, tip_height |-> tip_height ]
    /\ storage = EmptyStorage
    /\ btc_variant = 0
    /\ btc_tip = BaseHeight
    /\ spv_instance = None
    /\ cached_spv_instance = None
    /\ now = 0
    /\ last_op = NoOp
    /\ sync_result = NoSync
    /\ rpc_result = NoRpc
    /\ prev_tx_hash = None
    /\ tx_status = "none"
    /\ sent = <<>>
    /\ serve = NoIteration

TargetAdjust ==
    /\ call.op = "input"
    /\ call' = [ op |-> "target_adjust_info",
                 base_height |-> call.base_height,
                 tip_height |-> call.tip_height,
                 r |-> target_adjust_info(AdjustStorage(call.base_height, call.tip_height),
                                          call.tip_height) ]
    /\ UNCHANGED << storage, btc_variant, btc_tip, spv_instance, cached_spv_instance, now,
                    last_op, sync_result, rpc_result, prev_tx_hash, tx_status, sent, serve >>

NextAdjust == TargetAdjust

SpecAdjust == InitAdjust /\ [][NextAdjust]_vars

AdjustFlag == (call.tip_height + 1) % DIFFCHANGE_INTERVAL
AdjustStart == (call.tip_height \div DIFFCHANGE_INTERVAL) * DIFFCHANGE_INTERVAL

\* C40: for every tip height of a store whose base is a multiple of 2016,
\* the start height lies in [base, tip], the call succeeds, and the info is
\* the tip header's (time, bits) for flag 1, the start header's time with the
\* retargeted bits for flag 0, and the start header's (time, bits) otherwise.
Thm_C40_TargetAdjustByFlag ==
    call.op = "target_adjust_info" =>
        /\ call.base_height <= AdjustStart /\ AdjustStart <= call.tip_height
        /\ call.r.ok
        /\ AdjustFlag = 1 =>
               call.r.info = encode(AdjustHeader(call.tip_height).time,
                                    AdjustHeader(call.tip_height).bits)
        /\ AdjustFlag = 0 =>
               call.r.info = encode(AdjustHeader(AdjustStart).time,
                                    next_bits(AdjustHeader(call.tip_height).bits,
                                              AdjustHeader(AdjustStart).time,
                                              AdjustHeader(call.tip_height).time))
        /\ AdjustFlag \notin { 0, 1 } =>
               call.r.info = encode(AdjustHeader(AdjustStart).time,
                                    AdjustHeader(AdjustStart).bits)

\* the last block of the first window of a store initialised at 2016
Wit_C40_LastBlockOfWindow ==
    /\ call.op = "target_adjust_info"
    /\ call.base_height = DIFFCHANGE_INTERVAL
    /\ AdjustFlag = 0
    /\ call.r.ok
    /\ AdjustStart = call.base_height
====
